---- MODULE Spec2Model ----
(***************************************************************************)
(* Persistent data structures of spork.runtime.pds (src/spork/runtime/     *)
(* pds.c): the bit-partitioned Vector trie with its tail, the HAMT behind  *)
(* Map and Set, the left-leaning red-black tree behind SortedVector, and   *)
(* the transient (edit-token) variants of each.                            *)
(*                                                                         *)
(* Every Python object the module allocates is a record in `heap`; an      *)
(* object pointer is the negated heap index, the C NULL pointer is 0, and  *)
(* user values (Python ints) are the positive integers.  A node edited in  *)
(* place is a heap cell rewritten in place, so sharing between persistent  *)
(* values and transients is observable.                                    *)
(***************************************************************************)
EXTENDS Integers, Sequences, FiniteSets, TLC

VARIABLES
    BITS,     \* bits per trie level (pds.c:57), fixed by Init for the whole run
    kind,     \* which structure this run exercises
    mode,     \* "tree": all values are kept; "chain": only the newest value
    heap,     \* the object heap
    pers,     \* persistent values held by the client, with their history
    tr,       \* the transient held by the client (ref = NULL: none)
    lastOp,   \* name of the operation executed last
    err,      \* exception raised by the operation executed last
    steps,    \* operations executed so far (tree mode)
    ub        \* what undefined behaviour does in this run of the program

vars == <<BITS, kind, mode, heap, pers, tr, lastOp, err, steps, ub>>

----------------------------------------------------------------------------
(* Bounds of the exploration *)

SourceBITS == 5
SmallBITS == 2
MaxSteps == 2
MaxInit == 40
MaxCount == 22
MaxMarks == 1
MaxTransients == 1
MaxSortedCount == 5
MaxSourceCount == 34
MaxGrow == 1057

----------------------------------------------------------------------------
(* Constants of the program *)

WIDTH == 2 ^ BITS
MASK == WIDTH - 1

NULL == 0
Py_None == -1
MISSING == -2
EMPTY_NODE == -3
EMPTY_VECTOR == -4
EMPTY_BIN == -5
EMPTY_MAP == -6
EMPTY_SET == -7
EMPTY_SORTED_VECTOR == -8
\* a key function the client passes to sorted_vec
KEY_FN == -9
EMPTY_DOUBLE_NODE == -10
EMPTY_DOUBLE_VECTOR == -11

NoError == "none"
IndexError == "IndexError"
KeyError == "KeyError"
UseAfterFreeze == "RuntimeError: transient used after persistent()"
UndefinedBehaviour == "crash"
MemoryError == "MemoryError"

----------------------------------------------------------------------------
(* The heap *)

\* the tuple <<f[lo], ..., f[hi]>>
RECURSIVE TupRange(_, _, _)
TupRange(f, lo, hi) ==
    IF lo > hi THEN <<>>
    ELSE IF lo = hi THEN <<f[lo]>>
    ELSE LET mid == (lo + hi) \div 2 IN
         TupRange(f, lo, mid) \o TupRange(f, mid + 1, hi)

Tup(f, n) == TupRange(f, 1, n)

IsRef(x) == x < 0
Deref(h, r) == h[0 - r]
Alloc(h, rec) == [h |-> Append(h, rec), r |-> 0 - (Len(h) + 1)]
SetSlot(h, node, j, x) == [h EXCEPT ![0 - node].array[j + 1] = x]
Ret(a) == [h |-> a.h, r |-> a.r, e |-> NoError]
Raise(h, e) == [h |-> h, r |-> NULL, e |-> e]

\* With(e, LAMBDA x : body) is body with x naming the value of e
With(v, F(_)) == F(v)

\* (x >> level) & MASK
Sub(x, level) == (x \div (2 ^ level)) % WIDTH

\* PyObject_New(PyObject, &PyBaseObject_Type): a fresh edit token
NewToken(h) == Alloc(h, [kind |-> "object"])

----------------------------------------------------------------------------
(* VectorNode, pds.c:471-523 *)

VectorNode_create(h, transient_id) ==
    Alloc(h, [kind |-> "VectorNode",
              array |-> Tup([j \in 1..WIDTH |-> NULL], WIDTH),
              transient_id |-> transient_id])

VectorNode_clone(h, self, transient_id) ==
    Alloc(h, [kind |-> "VectorNode",
              array |-> Deref(h, self).array,
              transient_id |-> transient_id])

VectorNode_is_editable(h, self, transient_id) ==
    transient_id # NULL /\ Deref(h, self).transient_id = transient_id

----------------------------------------------------------------------------
(* Vector, pds.c:526-1005 *)

Vector_create(h, cnt, shift, root, tail, transient_id) ==
    Alloc(h, [kind |-> "Vector", cnt |-> cnt, shift |-> shift,
              root |-> IF root # NULL THEN root ELSE EMPTY_NODE,
              tail |-> tail, transient_id |-> transient_id])

Vector_tail_off(v) ==
    IF v.cnt < WIDTH THEN 0 ELSE ((v.cnt - 1) \div WIDTH) * WIDTH

RECURSIVE Vector_descend(_, _, _, _)
\* for (level = shift; level > 0; level -= BITS) node = node->array[(i >> level) & MASK]
Vector_descend(h, node, level, i) ==
    IF level > 0
    THEN Vector_descend(h, Deref(h, node).array[Sub(i, level) + 1], level - BITS, i)
    ELSE node

Vector_node_for(h, self, i) ==
    LET v == Deref(h, self) IN
    IF i >= Vector_tail_off(v) THEN NULL
    ELSE Vector_descend(h, v.root, v.shift, i)

Vector_array_for(h, self, i) ==
    LET v == Deref(h, self) IN
    IF i < 0 \/ i >= v.cnt THEN [e |-> IndexError, r |-> <<>>]
    ELSE IF i >= Vector_tail_off(v) THEN [e |-> NoError, r |-> v.tail]
    ELSE LET node == Deref(h, Vector_descend(h, v.root, v.shift, i)) IN
         [e |-> NoError,
          r |-> [j \in 1..WIDTH |->
                    IF node.array[j] = NULL THEN Py_None ELSE node.array[j]]]

\* the leaf nodes below node, a node of the trie at the given level: a node
\* at level 0 is a leaf
RECURSIVE Vector_leaves(_, _, _)
RECURSIVE Vector_leaves_from(_, _, _, _)
Vector_leaves_from(h, node, level, j) ==
    IF j > WIDTH THEN 0
    ELSE (IF Deref(h, node).array[j] = NULL THEN 0
          ELSE Vector_leaves(h, Deref(h, node).array[j], level - BITS))
         + Vector_leaves_from(h, node, level, j + 1)

Vector_leaves(h, node, level) ==
    IF level = 0 THEN 1 ELSE Vector_leaves_from(h, node, level, 1)

\* a mistaken Vector_nth_impl: None for an index out of range
Vector_nth_impl_none(h, self, i0, default_val) ==
    LET v == Deref(h, self)
        i == IF i0 < 0 THEN v.cnt + i0 ELSE i0
    IN  IF i < 0 \/ i >= v.cnt THEN [e |-> NoError, r |-> Py_None]
        ELSE [e |-> NoError, r |-> Vector_array_for(h, self, i).r[(i % WIDTH) + 1]]

\* default_val = NULL: no default
Vector_nth_impl(h, self, i0, default_val) ==
    LET v == Deref(h, self)
        i == IF i0 < 0 THEN v.cnt + i0 ELSE i0
    IN  IF i < 0 \/ i >= v.cnt
        THEN IF default_val # NULL THEN [e |-> NoError, r |-> default_val]
             ELSE [e |-> IndexError, r |-> NULL]
        ELSE LET arr == Vector_array_for(h, self, i) IN
             IF arr.e # NoError THEN [e |-> arr.e, r |-> NULL]
             ELSE [e |-> NoError, r |-> arr.r[(i % WIDTH) + 1]]

\* self[key] for an integer key, pds.c:711-733
Vector_getitem(h, self, key) ==
    LET v == Deref(h, self)
        i == IF key < 0 THEN v.cnt + key ELSE key
    IN  IF i < 0 \/ i >= v.cnt THEN [e |-> IndexError, r |-> NULL]
        ELSE LET arr == Vector_array_for(h, self, i) IN
             IF arr.e # NoError THEN [e |-> arr.e, r |-> NULL]
             ELSE [e |-> NoError, r |-> arr.r[(i % WIDTH) + 1]]

\* the value the iterator yields at position index (index < cnt)
VectorIterator_next(h, self, index) ==
    LET v == Deref(h, self)
        cached_node == Vector_node_for(h, self, index)
    IN  IF cached_node = NULL THEN v.tail[(index % WIDTH) + 1]
        ELSE LET result == Deref(h, cached_node).array[(index % WIDTH) + 1] IN
             IF result = NULL THEN Py_None ELSE result

RECURSIVE Vector_new_path(_, _, _, _)
Vector_new_path(h, level, node, transient_id) ==
    IF level = 0 THEN [h |-> h, r |-> node]
    ELSE LET ret == VectorNode_create(h, transient_id)
             child == Vector_new_path(ret.h, level - BITS, node, transient_id)
         IN  [h |-> SetSlot(child.h, ret.r, 0, child.r), r |-> ret.r]

RECURSIVE Vector_push_tail(_, _, _, _, _, _)
Vector_push_tail(h, self, level, parent, tail_node, transient_id) ==
    LET subidx == Sub(Deref(h, self).cnt - 1, level)
        ret == IF VectorNode_is_editable(h, parent, transient_id)
               THEN [h |-> h, r |-> parent]
               ELSE VectorNode_clone(h, parent, transient_id)
        child == Deref(h, parent).array[subidx + 1]
        node_to_insert ==
            IF level = BITS THEN [h |-> ret.h, r |-> tail_node]
            ELSE IF child # NULL
                 THEN Vector_push_tail(ret.h, self, level - BITS, child,
                                       tail_node, transient_id)
                 ELSE Vector_new_path(ret.h, level - BITS, tail_node, transient_id)
    IN  [h |-> SetSlot(node_to_insert.h, ret.r, subidx, node_to_insert.r),
         r |-> ret.r]

\* a mistaken Vector_conj: the new tail is the full tail with val appended
Vector_conj_keeps_tail(h, self, val) ==
    LET v == Deref(h, self)
        transient_id == v.transient_id
        tail_len == Len(v.tail)
    IN  IF v.cnt - Vector_tail_off(v) < WIDTH
        THEN Ret(Vector_create(h, v.cnt + 1, v.shift, v.root,
                               Append(v.tail, val), transient_id))
        ELSE
        LET tn == VectorNode_create(h, transient_id)
            tail_node == tn.r
            h1 == [tn.h EXCEPT ![0 - tail_node].array =
                      Tup([j \in 1..WIDTH |->
                              IF j <= tail_len THEN v.tail[j] ELSE NULL], WIDTH)]
            overflow == (v.cnt \div WIDTH) > 2 ^ v.shift
            new_root ==
                IF overflow
                THEN LET nr == VectorNode_create(h1, transient_id)
                         h2 == SetSlot(nr.h, nr.r, 0, v.root)
                         path == Vector_new_path(h2, v.shift, tail_node, transient_id)
                     IN  [h |-> SetSlot(path.h, nr.r, 1, path.r), r |-> nr.r]
                ELSE Vector_push_tail(h1, self, v.shift, v.root, tail_node,
                                      transient_id)
            new_shift == IF overflow THEN v.shift + BITS ELSE v.shift
        IN  Ret(Vector_create(new_root.h, v.cnt + 1, new_shift, new_root.r,
                              Append(v.tail, val), transient_id))

\* a mistaken Vector_conj: the root overflows one leaf too late
Vector_conj_late_overflow(h, self, val) ==
    LET v == Deref(h, self)
        transient_id == v.transient_id
        tail_len == Len(v.tail)
    IN  IF v.cnt - Vector_tail_off(v) < WIDTH
        THEN Ret(Vector_create(h, v.cnt + 1, v.shift, v.root,
                               Append(v.tail, val), transient_id))
        ELSE
        LET tn == VectorNode_create(h, transient_id)
            tail_node == tn.r
            h1 == [tn.h EXCEPT ![0 - tail_node].array =
                      Tup([j \in 1..WIDTH |->
                              IF j <= tail_len THEN v.tail[j] ELSE NULL], WIDTH)]
            overflow == (v.cnt \div WIDTH) > 2 ^ v.shift + 1
            new_root ==
                IF overflow
                THEN LET nr == VectorNode_create(h1, transient_id)
                         h2 == SetSlot(nr.h, nr.r, 0, v.root)
                         path == Vector_new_path(h2, v.shift, tail_node, transient_id)
                     IN  [h |-> SetSlot(path.h, nr.r, 1, path.r), r |-> nr.r]
                ELSE Vector_push_tail(h1, self, v.shift, v.root, tail_node,
                                      transient_id)
            new_shift == IF overflow THEN v.shift + BITS ELSE v.shift
        IN  Ret(Vector_create(new_root.h, v.cnt + 1, new_shift, new_root.r,
                              <<val>>, transient_id))

Vector_conj(h, self, val) ==
    LET v == Deref(h, self)
        transient_id == v.transient_id
        tail_len == Len(v.tail)
    IN  IF v.cnt - Vector_tail_off(v) < WIDTH
        THEN Ret(Vector_create(h, v.cnt + 1, v.shift, v.root,
                               Append(v.tail, val), transient_id))
        ELSE
        LET tn == VectorNode_create(h, transient_id)
            tail_node == tn.r
            h1 == [tn.h EXCEPT ![0 - tail_node].array =
                      Tup([j \in 1..WIDTH |->
                              IF j <= tail_len THEN v.tail[j] ELSE NULL], WIDTH)]
            overflow == (v.cnt \div WIDTH) > 2 ^ v.shift
            new_root ==
                IF overflow
                THEN LET nr == VectorNode_create(h1, transient_id)
                         h2 == SetSlot(nr.h, nr.r, 0, v.root)
                         path == Vector_new_path(h2, v.shift, tail_node, transient_id)
                     IN  [h |-> SetSlot(path.h, nr.r, 1, path.r), r |-> nr.r]
                ELSE Vector_push_tail(h1, self, v.shift, v.root, tail_node,
                                      transient_id)
            new_shift == IF overflow THEN v.shift + BITS ELSE v.shift
        IN  Ret(Vector_create(new_root.h, v.cnt + 1, new_shift, new_root.r,
                              <<val>>, transient_id))

RECURSIVE Vector_do_assoc(_, _, _, _, _)
\* do_assoc that writes into the node it was given instead of into a copy
Vector_do_assoc_in_place(h, level, node, i, val) ==
    IF level = 0
    THEN [h |-> SetSlot(h, node, i % WIDTH, val), r |-> node]
    ELSE With(Vector_do_assoc(h, level - BITS, Deref(h, node).array[Sub(i, level) + 1],
                              i, val),
              LAMBDA child :
              [h |-> SetSlot(child.h, node, Sub(i, level), child.r), r |-> node])

Vector_do_assoc(h, level, node, i, val) ==
    LET ret == VectorNode_clone(h, node, NULL) IN
    IF level = 0
    THEN [h |-> SetSlot(ret.h, ret.r, i % WIDTH, val), r |-> ret.r]
    ELSE LET subidx == Sub(i, level)
             child == Vector_do_assoc(ret.h, level - BITS,
                                      Deref(h, node).array[subidx + 1], i, val)
         IN  [h |-> SetSlot(child.h, ret.r, subidx, child.r), r |-> ret.r]

\* assoc that builds the new path in the trie and then keeps the old root
Vector_assoc_old_root(h, self, i0, val) ==
    LET v == Deref(h, self)
        i == IF i0 < 0 THEN v.cnt + i0 ELSE i0
    IN  IF i < 0 \/ i > v.cnt THEN Raise(h, IndexError)
        ELSE IF i = v.cnt THEN Vector_conj(h, self, val)
        ELSE IF i >= Vector_tail_off(v)
        THEN Ret(Vector_create(h, v.cnt, v.shift, v.root,
                    Tup([j \in 1..Len(v.tail) |->
                        IF j - 1 = i % WIDTH THEN val ELSE v.tail[j]], Len(v.tail)),
                    NULL))
        ELSE Ret(Vector_create(Vector_do_assoc(h, v.shift, v.root, i, val).h,
                               v.cnt, v.shift, v.root, v.tail, NULL))

Vector_assoc(h, self, i0, val) ==
    LET v == Deref(h, self)
        i == IF i0 < 0 THEN v.cnt + i0 ELSE i0
    IN  IF i < 0 \/ i > v.cnt THEN Raise(h, IndexError)
        ELSE IF i = v.cnt THEN Vector_conj(h, self, val)
        ELSE IF i >= Vector_tail_off(v)
        THEN Ret(Vector_create(h, v.cnt, v.shift, v.root,
                    Tup([j \in 1..Len(v.tail) |->
                        IF j - 1 = i % WIDTH THEN val ELSE v.tail[j]], Len(v.tail)),
                    NULL))
        ELSE LET new_root == Vector_do_assoc(h, v.shift, v.root, i, val) IN
             Ret(Vector_create(new_root.h, v.cnt, v.shift, new_root.r, v.tail, NULL))

RECURSIVE Vector_pop_tail(_, _, _, _)
\* r = NULL: the node became empty
Vector_pop_tail(h, self, level, node) ==
    LET subidx == Sub(Deref(h, self).cnt - 2, level) IN
    IF level > BITS
    THEN LET new_child == Vector_pop_tail(h, self, level - BITS,
                                          Deref(h, node).array[subidx + 1])
         IN  IF new_child.r = NULL /\ subidx = 0 THEN [h |-> new_child.h, r |-> NULL]
             ELSE LET ret == VectorNode_clone(new_child.h, node, NULL) IN
                  [h |-> SetSlot(ret.h, ret.r, subidx, new_child.r), r |-> ret.r]
    ELSE IF subidx = 0 THEN [h |-> h, r |-> NULL]
    ELSE LET ret == VectorNode_clone(h, node, NULL) IN
         [h |-> SetSlot(ret.h, ret.r, subidx, NULL), r |-> ret.r]

Vector_pop(h, self) ==
    LET v == Deref(h, self)
        tail_len == Len(v.tail)
    IN  IF v.cnt = 0 THEN Raise(h, IndexError)
        ELSE IF v.cnt = 1 THEN [h |-> h, r |-> EMPTY_VECTOR, e |-> NoError]
        ELSE IF v.cnt - Vector_tail_off(v) > 1
        THEN Ret(Vector_create(h, v.cnt - 1, v.shift, v.root,
                               SubSeq(v.tail, 1, tail_len - 1), NULL))
        ELSE
        LET new_tail == Vector_array_for(h, self, v.cnt - 2)
            popped == Vector_pop_tail(h, self, v.shift, v.root)
            root1 == IF popped.r = NULL THEN EMPTY_NODE ELSE popped.r
            reduce == v.shift > BITS /\ Deref(popped.h, root1).array[2] = NULL
            new_root == IF reduce THEN Deref(popped.h, root1).array[1] ELSE root1
            new_shift == IF reduce THEN v.shift - BITS ELSE v.shift
        IN  IF new_tail.e # NoError THEN Raise(h, new_tail.e)
            ELSE Ret(Vector_create(popped.h, v.cnt - 1, new_shift, new_root,
                                   Tup(new_tail.r, WIDTH), NULL))

----------------------------------------------------------------------------
(* TransientVector, pds.c:3651-4054 *)

Vector_transient(h, self) ==
    LET v == Deref(h, self)
        id == NewToken(h)
        root == VectorNode_clone(id.h, v.root, id.r)
    IN  Ret(Alloc(root.h, [kind |-> "TransientVector", cnt |-> v.cnt,
                           shift |-> v.shift, root |-> root.r,
                           tail |-> v.tail, id |-> id.r]))

TransientVector_tail_off(t) ==
    IF t.cnt < WIDTH THEN 0 ELSE ((t.cnt - 1) \div WIDTH) * WIDTH

\* TRUE when the call leaves the RuntimeError set
TransientVector_ensure_editable(h, self) == Deref(h, self).id = NULL

RECURSIVE TransientVector_new_path(_, _, _, _)
TransientVector_new_path(h, self, level, node) ==
    IF level = 0 THEN [h |-> h, r |-> node]
    ELSE LET ret == VectorNode_create(h, Deref(h, self).id)
             child == TransientVector_new_path(ret.h, self, level - BITS, node)
         IN  [h |-> SetSlot(child.h, ret.r, 0, child.r), r |-> ret.r]

RECURSIVE TransientVector_push_tail(_, _, _, _, _)
TransientVector_push_tail(h, self, level, parent, tail_node) ==
    LET t == Deref(h, self)
        subidx == Sub(t.cnt - 1, level)
        ret == IF VectorNode_is_editable(h, parent, t.id)
               THEN [h |-> h, r |-> parent]
               ELSE VectorNode_clone(h, parent, t.id)
        child == Deref(h, parent).array[subidx + 1]
        node_to_insert ==
            IF level = BITS THEN [h |-> ret.h, r |-> tail_node]
            ELSE IF child # NULL
                 THEN TransientVector_push_tail(ret.h, self, level - BITS, child,
                                                tail_node)
                 ELSE TransientVector_new_path(ret.h, self, level - BITS, tail_node)
    IN  [h |-> SetSlot(node_to_insert.h, ret.r, subidx, node_to_insert.r),
         r |-> ret.r]

TransientVector_conj_mut(h, self, val) ==
    LET t == Deref(h, self)
        tail_len == Len(t.tail)
    IN  IF TransientVector_ensure_editable(h, self) THEN Raise(h, UseAfterFreeze)
        ELSE IF t.cnt - TransientVector_tail_off(t) < WIDTH
        THEN [h |-> [h EXCEPT ![0 - self].tail = Append(@, val),
                              ![0 - self].cnt = @ + 1],
              r |-> self, e |-> NoError]
        ELSE
        LET tn == VectorNode_create(h, t.id)
            tail_node == tn.r
            h1 == [tn.h EXCEPT ![0 - tail_node].array =
                       Tup([j \in 1..WIDTH |->
                               IF j <= tail_len THEN t.tail[j] ELSE NULL], WIDTH),
                               ![0 - self].tail = <<val>>]
            overflow == (t.cnt \div WIDTH) > 2 ^ t.shift
            new_root ==
                IF overflow
                THEN LET nr == VectorNode_create(h1, t.id)
                         h2 == SetSlot(nr.h, nr.r, 0, t.root)
                         path == TransientVector_new_path(h2, self, t.shift, tail_node)
                     IN  [h |-> SetSlot(path.h, nr.r, 1, path.r), r |-> nr.r]
                ELSE TransientVector_push_tail(h1, self, t.shift, t.root, tail_node)
        IN  [h |-> [new_root.h EXCEPT
                       ![0 - self].root = new_root.r,
                       ![0 - self].shift = IF overflow THEN @ + BITS ELSE @,
                       ![0 - self].cnt = @ + 1],
             r |-> self, e |-> NoError]

\* conj_mut when the allocation numbered fault of the call fails: 1 is the
\* list growth of PyList_Append (pds.c:3770) or the tail node (pds.c:3777),
\* 2 the new tail list (pds.c:3787), 3 the first node allocated after the tail
\* was reset (pds.c:3797, 3804, 3815).  A tail that is NULL holds no element.
TransientVector_conj_mut_nomem(h, self, val, fault) ==
    LET t == Deref(h, self) IN
    IF TransientVector_ensure_editable(h, self) THEN Raise(h, UseAfterFreeze)
    ELSE IF t.cnt - TransientVector_tail_off(t) < WIDTH \/ fault = 1
    THEN Raise(h, MemoryError)
    ELSE IF fault = 2 THEN Raise([h EXCEPT ![0 - self].tail = <<>>], MemoryError)
    ELSE Raise([h EXCEPT ![0 - self].tail = <<val>>], MemoryError)

RECURSIVE TransientVector_do_assoc(_, _, _, _, _, _)
TransientVector_do_assoc(h, self, level, node, i, val) ==
    LET id == Deref(h, self).id
        ret == IF VectorNode_is_editable(h, node, id)
               THEN [h |-> h, r |-> node]
               ELSE VectorNode_clone(h, node, id)
    IN  IF level = 0
        THEN [h |-> SetSlot(ret.h, ret.r, i % WIDTH, val), r |-> ret.r]
        ELSE LET subidx == Sub(i, level)
                 child == TransientVector_do_assoc(ret.h, self, level - BITS,
                              Deref(h, node).array[subidx + 1], i, val)
             IN  [h |-> SetSlot(child.h, ret.r, subidx, child.r), r |-> ret.r]

TransientVector_assoc_mut(h, self, i0, val) ==
    LET t == Deref(h, self)
        i == IF i0 < 0 THEN t.cnt + i0 ELSE i0
        tail_off == TransientVector_tail_off(t)
    IN  IF TransientVector_ensure_editable(h, self) THEN Raise(h, UseAfterFreeze)
        ELSE IF i < 0 \/ i > t.cnt THEN Raise(h, IndexError)
        ELSE IF i = t.cnt THEN TransientVector_conj_mut(h, self, val)
        ELSE IF i >= tail_off
        THEN [h |-> [h EXCEPT ![0 - self].tail[i - tail_off + 1] = val],
              r |-> self, e |-> NoError]
        ELSE LET new_root == TransientVector_do_assoc(h, self, t.shift, t.root, i, val)
             IN  [h |-> [new_root.h EXCEPT ![0 - self].root = new_root.r],
                  r |-> self, e |-> NoError]

RECURSIVE TransientVector_pop_tail(_, _, _, _)
\* r = NULL: the node became empty
TransientVector_pop_tail(h, self, level, node) ==
    LET t == Deref(h, self)
        subidx == Sub(t.cnt - 2, level)
        ret == IF VectorNode_is_editable(h, node, t.id)
               THEN [h |-> h, r |-> node]
               ELSE VectorNode_clone(h, node, t.id)
    IN  IF level > BITS
        THEN LET new_child == TransientVector_pop_tail(ret.h, self, level - BITS,
                                  Deref(h, node).array[subidx + 1])
             IN  IF new_child.r = NULL /\ subidx = 0
                 THEN [h |-> new_child.h, r |-> NULL]
                 ELSE [h |-> SetSlot(new_child.h, ret.r, subidx, new_child.r),
                       r |-> ret.r]
        ELSE IF subidx = 0 THEN [h |-> ret.h, r |-> NULL]
        ELSE [h |-> SetSlot(ret.h, ret.r, subidx, NULL), r |-> ret.r]

\* a mistaken TransientVector_pop_mut: the leaf that became the tail stays in
\* the trie
TransientVector_pop_mut_keeps_leaf(h, self) ==
    LET t == Deref(h, self)
        tail_len == Len(t.tail)
    IN  IF TransientVector_ensure_editable(h, self) THEN Raise(h, UseAfterFreeze)
        ELSE IF t.cnt = 0 THEN Raise(h, IndexError)
        ELSE IF t.cnt = 1
        THEN [h |-> [h EXCEPT ![0 - self].cnt = 0, ![0 - self].tail = <<>>],
              r |-> self, e |-> NoError]
        ELSE IF tail_len > 1
        THEN [h |-> [h EXCEPT ![0 - self].tail = SubSeq(@, 1, tail_len - 1),
                              ![0 - self].cnt = @ - 1],
              r |-> self, e |-> NoError]
        ELSE
        LET node == Deref(h, Vector_descend(h, t.root, t.shift, t.cnt - 2))
            leaf == Tup([j \in 1..WIDTH |->
                        IF node.array[j] # NULL THEN node.array[j] ELSE Py_None], WIDTH)
            h1 == [h EXCEPT ![0 - self].tail = leaf]
            popped == [h |-> h1, r |-> t.root]
            root1 == IF popped.r = NULL THEN VectorNode_create(popped.h, t.id)
                     ELSE popped
            reduce == t.shift > BITS /\ Deref(root1.h, root1.r).array[2] = NULL
            new_root == IF reduce THEN Deref(root1.h, root1.r).array[1] ELSE root1.r
            new_shift == IF reduce THEN t.shift - BITS ELSE t.shift
            actual_tail_size == (t.cnt - 2) % WIDTH
        IN  [h |-> [root1.h EXCEPT
                       ![0 - self].root = new_root,
                       ![0 - self].shift = new_shift,
                       ![0 - self].cnt = t.cnt - 1,
                       ![0 - self].tail =
                           IF actual_tail_size < WIDTH - 1
                           THEN SubSeq(leaf, 1, actual_tail_size + 1) ELSE leaf],
             r |-> self, e |-> NoError]

TransientVector_pop_mut(h, self) ==
    LET t == Deref(h, self)
        tail_len == Len(t.tail)
    IN  IF TransientVector_ensure_editable(h, self) THEN Raise(h, UseAfterFreeze)
        ELSE IF t.cnt = 0 THEN Raise(h, IndexError)
        ELSE IF t.cnt = 1
        THEN [h |-> [h EXCEPT ![0 - self].cnt = 0, ![0 - self].tail = <<>>],
              r |-> self, e |-> NoError]
        ELSE IF tail_len > 1
        THEN [h |-> [h EXCEPT ![0 - self].tail = SubSeq(@, 1, tail_len - 1),
                              ![0 - self].cnt = @ - 1],
              r |-> self, e |-> NoError]
        ELSE
        LET node == Deref(h, Vector_descend(h, t.root, t.shift, t.cnt - 2))
            leaf == Tup([j \in 1..WIDTH |->
                        IF node.array[j] # NULL THEN node.array[j] ELSE Py_None], WIDTH)
            h1 == [h EXCEPT ![0 - self].tail = leaf]
            popped == TransientVector_pop_tail(h1, self, t.shift, t.root)
            root1 == IF popped.r = NULL THEN VectorNode_create(popped.h, t.id)
                     ELSE popped
            reduce == t.shift > BITS /\ Deref(root1.h, root1.r).array[2] = NULL
            new_root == IF reduce THEN Deref(root1.h, root1.r).array[1] ELSE root1.r
            new_shift == IF reduce THEN t.shift - BITS ELSE t.shift
            actual_tail_size == (t.cnt - 2) % WIDTH
        IN  [h |-> [root1.h EXCEPT
                       ![0 - self].root = new_root,
                       ![0 - self].shift = new_shift,
                       ![0 - self].cnt = t.cnt - 1,
                       ![0 - self].tail =
                           IF actual_tail_size < WIDTH - 1
                           THEN SubSeq(leaf, 1, actual_tail_size + 1) ELSE leaf],
             r |-> self, e |-> NoError]

\* a mistaken TransientVector_persistent: the transient keeps its token
TransientVector_persistent_keeps_id(h, self) ==
    LET t == Deref(h, self) IN
    IF TransientVector_ensure_editable(h, self) THEN Raise(h, UseAfterFreeze)
    ELSE Ret(Vector_create(h, t.cnt, t.shift, t.root, t.tail, NULL))

TransientVector_persistent(h, self) ==
    LET t == Deref(h, self) IN
    IF TransientVector_ensure_editable(h, self) THEN Raise(h, UseAfterFreeze)
    ELSE Ret(Vector_create([h EXCEPT ![0 - self].id = NULL],
                           t.cnt, t.shift, t.root, t.tail, NULL))

\* pds.vec(*items), pds.c:9340-9404: built through a transient
\* the loop over args: conj_mut(items[lo]), ..., conj_mut(items[hi]) in order
RECURSIVE pds_vec_fill(_, _, _, _, _)
pds_vec_fill(h, t, items, lo, hi) ==
    IF lo > hi THEN h
    ELSE IF lo = hi THEN TransientVector_conj_mut(h, t, items[lo]).h
    ELSE LET mid == (lo + hi) \div 2
             h1 == pds_vec_fill(h, t, items, lo, mid)
         IN  IF Len(h1) = 0 THEN h1 ELSE pds_vec_fill(h1, t, items, mid + 1, hi)

pds_vec(h, items) ==
    IF items = <<>> THEN [h |-> h, r |-> EMPTY_VECTOR, e |-> NoError]
    ELSE LET t == Vector_transient(h, EMPTY_VECTOR)
         IN  TransientVector_persistent(
                 pds_vec_fill(t.h, t.r, items, 1, Len(items)), t.r)

----------------------------------------------------------------------------
(* HAMT nodes, pds.c:97-122 and pds.c:4400-4646 *)

\* the outcome of dereferencing a stored value as a node (the casts at
\* pds.c:4666, 4820, 4855, 4999 are not type-checked): undefined behaviour
Undefined == -1000000

\* PyObject_Hash(key): keys are objects whose hash is their number reduced to
\* the two trie levels the exploration covers; None hashes to a fixed value
PyObject_Hash(key) ==
    IF key = Py_None THEN (2 * WIDTH + 1) % (WIDTH * WIDTH)
    ELSE key % (WIDTH * WIDTH)

\* An unsigned int used as a bit mask is the set of the positions of its one
\* bits, and the one-bit mask 1U << n is the position n.
ctpop(i) == Cardinality(i)
mask_hash(hash_val, shift) == (hash_val \div (2 ^ shift)) % WIDTH
bitpos(hash_val, shift) == mask_hash(hash_val, shift)
\* ctpop(bitmap & (bit - 1))
bitmap_index(bitmap, bit) == ctpop({b \in bitmap : b < bit})
\* bitmap & bit
HasBit(bitmap, bit) == bit \in bitmap

IsNode(h, x) ==
    /\ IsRef(x) /\ x # Undefined
    /\ Deref(h, x).kind \in {"BitmapIndexedNode", "ArrayNode", "HashCollisionNode"}

BitmapIndexedNode_create(h, bitmap, array, transient_id) ==
    Alloc(h, [kind |-> "BitmapIndexedNode", bitmap |-> bitmap, array |-> array,
              transient_id |-> transient_id])

BitmapIndexedNode_is_editable(h, self, transient_id) ==
    transient_id # NULL /\ Deref(h, self).transient_id = transient_id

BitmapIndexedNode_ensure_editable(h, self, transient_id) ==
    IF BitmapIndexedNode_is_editable(h, self, transient_id) THEN [h |-> h, r |-> self]
    ELSE BitmapIndexedNode_create(h, Deref(h, self).bitmap, Deref(h, self).array,
                                  transient_id)

ArrayNode_create(h, count, array, transient_id) ==
    Alloc(h, [kind |-> "ArrayNode", count |-> count, array |-> array,
              transient_id |-> transient_id])

ArrayNode_is_editable(h, self, transient_id) ==
    transient_id # NULL /\ Deref(h, self).transient_id = transient_id

ArrayNode_ensure_editable(h, self, transient_id) ==
    IF ArrayNode_is_editable(h, self, transient_id) THEN [h |-> h, r |-> self]
    ELSE ArrayNode_create(h, Deref(h, self).count, Deref(h, self).array, transient_id)

HashCollisionNode_create(h, hash_val, count, array, transient_id) ==
    Alloc(h, [kind |-> "HashCollisionNode", hash |-> hash_val, count |-> count,
              array |-> array, transient_id |-> transient_id])

HashCollisionNode_is_editable(h, self, transient_id) ==
    transient_id # NULL /\ Deref(h, self).transient_id = transient_id

HashCollisionNode_ensure_editable(h, self, transient_id) ==
    IF HashCollisionNode_is_editable(h, self, transient_id) THEN [h |-> h, r |-> self]
    ELSE HashCollisionNode_create(h, Deref(h, self).hash, Deref(h, self).count,
                                  Deref(h, self).array, transient_id)

\* the C index of key in the [k1, v1, k2, v2, ...] list, or -1
HashCollisionNode_find_index(h, self, key) ==
    LET node == Deref(h, self)
        I == {i \in 0..(node.count - 1) : node.array[2 * i + 1] = key}
    IN  IF I = {} THEN -1 ELSE 2 * (CHOOSE i \in I : \A j \in I : i <= j)

----------------------------------------------------------------------------
(* find, pds.c:4803-4834, 5097-5113, 5324-5334 *)

RECURSIVE Node_find(_, _, _, _, _, _)

BitmapIndexedNode_find(h, self, shift, hash_val, key, not_found) ==
    LET node == Deref(h, self)
        bit == bitpos(hash_val, shift)
        idx == bitmap_index(node.bitmap, bit)
        key_or_null == node.array[2 * idx + 1]
        val_or_node == node.array[2 * idx + 2]
    IN  IF ~HasBit(node.bitmap, bit) THEN not_found
        ELSE IF key_or_null = Py_None
        THEN Node_find(h, val_or_node, shift + BITS, hash_val, key, not_found)
        ELSE IF key = key_or_null THEN val_or_node
        ELSE not_found

ArrayNode_find(h, self, shift, hash_val, key, not_found) ==
    LET node == Deref(h, self).array[mask_hash(hash_val, shift) + 1] IN
    IF node = Py_None THEN not_found
    ELSE Node_find(h, node, shift + BITS, hash_val, key, not_found)

HashCollisionNode_find(h, self, shift, hash_val, key, not_found) ==
    LET idx == HashCollisionNode_find_index(h, self, key) IN
    IF idx < 0 THEN not_found ELSE Deref(h, self).array[idx + 2]

\* the PyObject_TypeCheck cascade every caller uses to pick the node type
Node_find(h, node, shift, hash_val, key, not_found) ==
    IF ~IsNode(h, node) THEN Undefined
    ELSE CASE Deref(h, node).kind = "BitmapIndexedNode" ->
                 BitmapIndexedNode_find(h, node, shift, hash_val, key, not_found)
           [] Deref(h, node).kind = "ArrayNode" ->
                 ArrayNode_find(h, node, shift, hash_val, key, not_found)
           [] OTHER ->
                 HashCollisionNode_find(h, node, shift, hash_val, key, not_found)

----------------------------------------------------------------------------
(* assoc, pds.c:4609-4801, 5040-5095, 5267-5322.  The result carries the   *)
(* number of entries the call appended to its added_leaf list.             *)

RECURSIVE Node_assoc(_, _, _, _, _, _, _)
RECURSIVE BitmapIndexedNode_assoc(_, _, _, _, _, _, _)
RECURSIVE create_node(_, _, _, _, _, _, _, _)
RECURSIVE BitmapIndexedNode_upgrade(_, _, _, _, _, _, _)

NodeRet(h, r, added) == [h |-> h, r |-> r, added |-> added]

\* the tail every assoc shares once the child call has returned n: self is
\* kept when the child is unchanged, else the child is stored at C index slot
\* of an editable self
Node_store(n, self, old, slot, ed) ==
    IF n.r = Undefined THEN n
    ELSE IF n.r = old THEN NodeRet(n.h, self, n.added)
    ELSE NodeRet(SetSlot(ed.h, ed.r, slot, n.r), ed.r, n.added)

\* pds.c:4740-4768: the loop moving the entries of self into the list `nodes`
\* of the ArrayNode, i the slot, j the position in self->array
BitmapIndexedNode_upgrade(h, self, shift, nodes, i, j, transient_id) ==
    LET node == Deref(h, self) IN
    IF i >= WIDTH THEN [h |-> h, r |-> nodes]
    ELSE IF i \notin node.bitmap
    THEN BitmapIndexedNode_upgrade(h, self, shift, nodes, i + 1, j, transient_id)
    ELSE IF node.array[j + 1] = Py_None
    THEN BitmapIndexedNode_upgrade(h, self, shift,
                                   [nodes EXCEPT ![i + 1] = node.array[j + 2]],
                                   i + 1, j + 2, transient_id)
    ELSE With(BitmapIndexedNode_assoc(h, EMPTY_BIN, shift + BITS,
                                      PyObject_Hash(node.array[j + 1]),
                                      node.array[j + 1], node.array[j + 2],
                                      transient_id),
              LAMBDA child :
              BitmapIndexedNode_upgrade(child.h, self, shift,
                  [nodes EXCEPT ![i + 1] = child.r], i + 1, j + 2, transient_id))

\* pds.c:4672-4690: the slot holds another key, both move into a new node
BitmapIndexedNode_split(new_node, ed, idx) ==
    NodeRet(SetSlot(SetSlot(ed.h, ed.r, 2 * idx, Py_None),
                    ed.r, 2 * idx + 1, new_node.r), ed.r, 1)

\* a mistaken promotion: the ArrayNode counts the old entries only
BitmapIndexedNode_promote_miscount(self, shift, jdx, n, new_bin, transient_id) ==
    With(BitmapIndexedNode_upgrade(new_bin.h, self, shift,
             [Tup([i \in 1..WIDTH |-> Py_None], WIDTH) EXCEPT ![jdx + 1] = new_bin.r],
             0, 0, transient_id),
         LAMBDA filled :
         With(ArrayNode_create(filled.h, n, filled.r, transient_id),
              LAMBDA result : NodeRet(result.h, result.r, new_bin.added)))

\* pds.c:4722-4775: the node is at the promotion threshold
BitmapIndexedNode_promote(self, shift, jdx, n, new_bin, transient_id) ==
    With(BitmapIndexedNode_upgrade(new_bin.h, self, shift,
             [Tup([i \in 1..WIDTH |-> Py_None], WIDTH) EXCEPT ![jdx + 1] = new_bin.r],
             0, 0, transient_id),
         LAMBDA filled :
         With(ArrayNode_create(filled.h, n + 1, filled.r, transient_id),
              LAMBDA result : NodeRet(result.h, result.r, new_bin.added)))

BitmapIndexedNode_assoc(h, self, shift, hash_val, key, val, transient_id) ==
    LET node == Deref(h, self)
        bit == bitpos(hash_val, shift)
        idx == bitmap_index(node.bitmap, bit)
        key_or_null == node.array[2 * idx + 1]
        val_or_node == node.array[2 * idx + 2]
    IN  IF HasBit(node.bitmap, bit)
        THEN IF key_or_null = Py_None
             THEN With(Node_assoc(h, val_or_node, shift + BITS, hash_val, key, val,
                                  transient_id),
                       LAMBDA n :
                       Node_store(n, self, val_or_node, 2 * idx + 1,
                           BitmapIndexedNode_ensure_editable(n.h, self, transient_id)))
             ELSE IF key = key_or_null
             THEN IF val = val_or_node THEN NodeRet(h, self, 0)
                  ELSE With(BitmapIndexedNode_ensure_editable(h, self, transient_id),
                            LAMBDA ed :
                            NodeRet(SetSlot(ed.h, ed.r, 2 * idx + 1, val), ed.r, 0))
             ELSE With(create_node(h, shift + BITS, key_or_null, val_or_node,
                                   hash_val, key, val, transient_id),
                       LAMBDA new_node :
                       With(BitmapIndexedNode_ensure_editable(new_node.h, self,
                                                              transient_id),
                            LAMBDA ed : BitmapIndexedNode_split(new_node, ed, idx)))
        ELSE IF ctpop(node.bitmap) >= WIDTH \div 2
             THEN With(BitmapIndexedNode_assoc(h, EMPTY_BIN, shift + BITS,
                                               hash_val, key, val, transient_id),
                       LAMBDA new_bin :
                       BitmapIndexedNode_promote(self, shift, mask_hash(hash_val, shift),
                                                 ctpop(node.bitmap), new_bin,
                                                 transient_id))
             ELSE With(BitmapIndexedNode_create(h, node.bitmap \cup {bit},
                           SubSeq(node.array, 1, 2 * idx) \o <<key, val>>
                               \o SubSeq(node.array, 2 * idx + 1, Len(node.array)),
                           transient_id),
                       LAMBDA created : NodeRet(created.h, created.r, 1))

\* pds.c:5050-5068: the slot was empty, the count grows by one
ArrayNode_fill_slot(new_node, editable, idx) ==
    NodeRet([SetSlot(editable.h, editable.r, idx, new_node.r)
                EXCEPT ![0 - editable.r].count = @ + 1], editable.r, 1)

ArrayNode_assoc(h, self, shift, hash_val, key, val, transient_id) ==
    LET idx == mask_hash(hash_val, shift)
        node == Deref(h, self).array[idx + 1]
    IN  IF node = Py_None
        THEN With(BitmapIndexedNode_assoc(h, EMPTY_BIN, shift + BITS, hash_val,
                                          key, val, transient_id),
                  LAMBDA new_node :
                  With(ArrayNode_ensure_editable(new_node.h, self, transient_id),
                       LAMBDA editable : ArrayNode_fill_slot(new_node, editable, idx)))
        ELSE With(Node_assoc(h, node, shift + BITS, hash_val, key, val, transient_id),
                  LAMBDA n :
                  Node_store(n, self, node, idx,
                             ArrayNode_ensure_editable(n.h, self, transient_id)))

HashCollisionNode_assoc(h, self, shift, hash_val, key, val, transient_id) ==
    LET node == Deref(h, self)
        idx == HashCollisionNode_find_index(h, self, key)
    IN  IF hash_val = node.hash
        THEN IF idx # -1
             THEN IF node.array[idx + 2] = val THEN NodeRet(h, self, 0)
                  ELSE With(HashCollisionNode_ensure_editable(h, self, transient_id),
                            LAMBDA ed :
                            NodeRet(SetSlot(ed.h, ed.r, idx + 1, val), ed.r, 0))
             ELSE With(HashCollisionNode_create(h, node.hash, node.count + 1,
                           node.array \o <<key, val>>, transient_id),
                       LAMBDA created : NodeRet(created.h, created.r, 1))
        ELSE With(BitmapIndexedNode_create(h, {bitpos(node.hash, shift)},
                                           <<Py_None, self>>, transient_id),
                  LAMBDA bin :
                  BitmapIndexedNode_assoc(bin.h, bin.r, shift, hash_val, key, val,
                                          transient_id))

create_node(h, shift, key1, val1, hash2, key2, val2, transient_id) ==
    IF PyObject_Hash(key1) = hash2
    THEN With(HashCollisionNode_create(h, hash2, 2, <<key1, val1, key2, val2>>,
                                       transient_id),
              LAMBDA node : NodeRet(node.h, node.r, 0))
    ELSE With(BitmapIndexedNode_assoc(h, EMPTY_BIN, shift, PyObject_Hash(key1),
                                      key1, val1, transient_id),
              LAMBDA n1 : Node_assoc(n1.h, n1.r, shift, hash2, key2, val2,
                                     transient_id))

\* the PyObject_TypeCheck cascade every caller uses to pick the node type
Node_assoc(h, node, shift, hash_val, key, val, transient_id) ==
    IF ~IsNode(h, node) THEN NodeRet(h, Undefined, 0)
    ELSE CASE Deref(h, node).kind = "BitmapIndexedNode" ->
                 BitmapIndexedNode_assoc(h, node, shift, hash_val, key, val, transient_id)
           [] Deref(h, node).kind = "ArrayNode" ->
                 ArrayNode_assoc(h, node, shift, hash_val, key, val, transient_id)
           [] OTHER ->
                 HashCollisionNode_assoc(h, node, shift, hash_val, key, val, transient_id)

----------------------------------------------------------------------------
(* dissoc, pds.c:4836-4936, 5115-5189, 5336-5372.  The result carries the  *)
(* number of entries the call appended to its removed_leaf list; r is      *)
(* Py_None when the node has become empty.                                 *)

RECURSIVE Node_dissoc(_, _, _, _, _, _)

\* the array without the pair at C index 2 * idx
WithoutPair(array, idx) ==
    SubSeq(array, 1, 2 * idx) \o SubSeq(array, 2 * idx + 3, Len(array))

\* pds.c:4866-4905: what the node becomes once the child call has returned n
BitmapIndexedNode_after_dissoc(n, node, self, bit, idx, old, transient_id) ==
    IF n.r = Undefined THEN n
    ELSE IF n.r = old THEN NodeRet(n.h, self, n.added)
    ELSE IF n.r # Py_None
    THEN With(BitmapIndexedNode_ensure_editable(n.h, self, transient_id),
              LAMBDA ed : NodeRet(SetSlot(ed.h, ed.r, 2 * idx + 1, n.r), ed.r, n.added))
    ELSE IF node.bitmap = {bit} THEN NodeRet(n.h, Py_None, n.added)
    ELSE With(BitmapIndexedNode_create(n.h, node.bitmap \ {bit},
                                       WithoutPair(node.array, idx), transient_id),
              LAMBDA created : NodeRet(created.h, created.r, n.added))

BitmapIndexedNode_dissoc(h, self, shift, hash_val, key, transient_id) ==
    LET node == Deref(h, self)
        bit == bitpos(hash_val, shift)
        idx == bitmap_index(node.bitmap, bit)
        key_or_null == node.array[2 * idx + 1]
        val_or_node == node.array[2 * idx + 2]
    IN  IF ~HasBit(node.bitmap, bit) THEN NodeRet(h, self, 0)
        ELSE IF key_or_null = Py_None
        THEN BitmapIndexedNode_after_dissoc(
                 Node_dissoc(h, val_or_node, shift + BITS, hash_val, key, transient_id),
                 node, self, bit, idx, val_or_node, transient_id)
        ELSE IF key = key_or_null
        THEN IF node.bitmap = {bit} THEN NodeRet(h, Py_None, 1)
             ELSE With(BitmapIndexedNode_create(h, node.bitmap \ {bit},
                                                WithoutPair(node.array, idx),
                                                transient_id),
                       LAMBDA created : NodeRet(created.h, created.r, 1))
        ELSE NodeRet(h, self, 0)

\* pds.c:5120-5135: the loop over the slots from i on
RECURSIVE ArrayNode_pack_loop(_, _, _)
ArrayNode_pack_loop(array, idx, i) ==
    IF i >= WIDTH THEN [bitmap |-> {}, new_array |-> <<>>]
    ELSE With(ArrayNode_pack_loop(array, idx, i + 1), LAMBDA rest :
         IF i # idx /\ array[i + 1] # Py_None
         THEN [bitmap |-> {i} \cup rest.bitmap,
               new_array |-> <<Py_None, array[i + 1]>> \o rest.new_array]
         ELSE rest)

ArrayNode_pack(h, self, transient_id, idx) ==
    With(ArrayNode_pack_loop(Deref(h, self).array, idx, 0), LAMBDA packed :
    BitmapIndexedNode_create(h, packed.bitmap, packed.new_array, transient_id))

\* a mistaken demotion: the node is packed one child later
ArrayNode_after_dissoc_late(n, self, idx, old, transient_id) ==
    IF n.r = Undefined THEN n
    ELSE IF n.r = old THEN NodeRet(n.h, self, n.added)
    ELSE IF n.r = Py_None
    THEN IF Deref(n.h, self).count < WIDTH \div 4
         THEN With(ArrayNode_pack(n.h, self, transient_id, idx),
                   LAMBDA packed : NodeRet(packed.h, packed.r, n.added))
         ELSE With(ArrayNode_ensure_editable(n.h, self, transient_id),
                   LAMBDA editable :
                   NodeRet([SetSlot(editable.h, editable.r, idx, Py_None)
                               EXCEPT ![0 - editable.r].count = @ - 1],
                           editable.r, n.added))
    ELSE With(ArrayNode_ensure_editable(n.h, self, transient_id),
              LAMBDA editable :
              NodeRet(SetSlot(editable.h, editable.r, idx, n.r), editable.r, n.added))

\* pds.c:5150-5186: what the node becomes once the child call has returned n
ArrayNode_after_dissoc(n, self, idx, old, transient_id) ==
    IF n.r = Undefined THEN n
    ELSE IF n.r = old THEN NodeRet(n.h, self, n.added)
    ELSE IF n.r = Py_None
    THEN IF Deref(n.h, self).count <= WIDTH \div 4
         THEN With(ArrayNode_pack(n.h, self, transient_id, idx),
                   LAMBDA packed : NodeRet(packed.h, packed.r, n.added))
         ELSE With(ArrayNode_ensure_editable(n.h, self, transient_id),
                   LAMBDA editable :
                   NodeRet([SetSlot(editable.h, editable.r, idx, Py_None)
                               EXCEPT ![0 - editable.r].count = @ - 1],
                           editable.r, n.added))
    ELSE With(ArrayNode_ensure_editable(n.h, self, transient_id),
              LAMBDA editable :
              NodeRet(SetSlot(editable.h, editable.r, idx, n.r), editable.r, n.added))

ArrayNode_dissoc(h, self, shift, hash_val, key, transient_id) ==
    LET idx == mask_hash(hash_val, shift)
        node == Deref(h, self).array[idx + 1]
    IN  IF node = Py_None THEN NodeRet(h, self, 0)
        ELSE ArrayNode_after_dissoc(
                 Node_dissoc(h, node, shift + BITS, hash_val, key, transient_id),
                 self, idx, node, transient_id)

\* a mistaken removal: the first pair goes, whichever key was asked for
HashCollisionNode_dissoc_first(h, self, shift, hash_val, key, transient_id) ==
    LET node == Deref(h, self)
        idx == HashCollisionNode_find_index(h, self, key)
    IN  IF idx = -1 THEN NodeRet(h, self, 0)
        ELSE IF node.count = 1 THEN NodeRet(h, Py_None, 1)
        ELSE With(HashCollisionNode_create(h, node.hash, node.count - 1,
                      WithoutPair(node.array, 0), transient_id),
                  LAMBDA created : NodeRet(created.h, created.r, 1))

HashCollisionNode_dissoc(h, self, shift, hash_val, key, transient_id) ==
    LET node == Deref(h, self)
        idx == HashCollisionNode_find_index(h, self, key)
    IN  IF idx = -1 THEN NodeRet(h, self, 0)
        ELSE IF node.count = 1 THEN NodeRet(h, Py_None, 1)
        ELSE With(HashCollisionNode_create(h, node.hash, node.count - 1,
                      WithoutPair(node.array, idx \div 2), transient_id),
                  LAMBDA created : NodeRet(created.h, created.r, 1))

\* the PyObject_TypeCheck cascade every caller uses to pick the node type
Node_dissoc(h, node, shift, hash_val, key, transient_id) ==
    IF ~IsNode(h, node) THEN NodeRet(h, Undefined, 0)
    ELSE CASE Deref(h, node).kind = "BitmapIndexedNode" ->
                 BitmapIndexedNode_dissoc(h, node, shift, hash_val, key, transient_id)
           [] Deref(h, node).kind = "ArrayNode" ->
                 ArrayNode_dissoc(h, node, shift, hash_val, key, transient_id)
           [] OTHER ->
                 HashCollisionNode_dissoc(h, node, shift, hash_val, key, transient_id)

----------------------------------------------------------------------------
(* Iteration, pds.c:4960-5011, 5208-5238, 5389-5413: the <<key, value>>    *)
(* pairs the node iterators yield, in the order they yield them            *)

RECURSIVE Node_iter_kv(_, _)
RECURSIVE BitmapIndexedNodeIterator_next(_, _, _)
RECURSIVE ArrayNodeIterator_next(_, _, _)

\* the pairs yielded from position index of self->array onwards
BitmapIndexedNodeIterator_next(h, self, index) ==
    LET array == Deref(h, self).array
        key_or_null == array[index + 1]
        val_or_node == array[index + 2]
    IN  IF index >= Len(array) THEN <<>>
        ELSE IF key_or_null # Py_None
        THEN <<<<key_or_null, val_or_node>>>> \o
             BitmapIndexedNodeIterator_next(h, self, index + 2)
        ELSE IF val_or_node # Py_None
        THEN Node_iter_kv(h, val_or_node) \o
             BitmapIndexedNodeIterator_next(h, self, index + 2)
        ELSE BitmapIndexedNodeIterator_next(h, self, index + 2)

ArrayNodeIterator_next(h, self, index) ==
    LET node == Deref(h, self).array[index + 1] IN
    IF index >= WIDTH THEN <<>>
    ELSE IF node # Py_None
    THEN Node_iter_kv(h, node) \o ArrayNodeIterator_next(h, self, index + 1)
    ELSE ArrayNodeIterator_next(h, self, index + 1)

HashCollisionNodeIterator_next(h, self) ==
    LET array == Deref(h, self).array IN
    Tup([p \in 1..(Len(array) \div 2) |-> <<array[2 * p - 1], array[2 * p]>>],
        Len(array) \div 2)

\* the PyObject_TypeCheck cascade; iterating a value that is not a node is
\* undefined behaviour and shows as the pair <<Undefined, Undefined>>
Node_iter_kv(h, node) ==
    IF ~IsNode(h, node) THEN <<<<Undefined, Undefined>>>>
    ELSE CASE Deref(h, node).kind = "BitmapIndexedNode" ->
                 BitmapIndexedNodeIterator_next(h, node, 0)
           [] Deref(h, node).kind = "ArrayNode" -> ArrayNodeIterator_next(h, node, 0)
           [] OTHER -> HashCollisionNodeIterator_next(h, node)

----------------------------------------------------------------------------
(* Map, pds.c:5441-5647 *)

\* what a call that ran into undefined behaviour does: the process dies
\* (ub = Undefined) or the call comes back having changed nothing
OnUndefined(h, self) ==
    IF ub = Undefined THEN Raise(h, UndefinedBehaviour)
    ELSE [h |-> h, r |-> self, e |-> NoError]

\* what a lookup that ran into undefined behaviour yields
Resolve(x) == IF x = Undefined THEN ub ELSE x

Map_create(h, cnt, root, transient_id) ==
    Alloc(h, [kind |-> "Map", cnt |-> cnt, root |-> root,
              transient_id |-> transient_id])

Map_get(h, self, key, default_val) ==
    IF Deref(h, self).root = NULL THEN default_val
    ELSE Resolve(Node_find(h, Deref(h, self).root, 0, PyObject_Hash(key), key,
                           default_val))

\* 1, 0, or Undefined when the lookup crashed
Map_contains(h, self, key) ==
    IF Deref(h, self).root = NULL THEN 0
    ELSE LET result == Resolve(Node_find(h, Deref(h, self).root, 0,
                                         PyObject_Hash(key), key, MISSING))
         IN  IF result = Undefined THEN Undefined
             ELSE IF result # MISSING THEN 1 ELSE 0

Map_assoc(h, self, key, val) ==
    LET m == Deref(h, self) IN
    With(Node_assoc(h, IF m.root # NULL THEN m.root ELSE EMPTY_BIN, 0,
                    PyObject_Hash(key), key, val, m.transient_id),
         LAMBDA new_root :
         IF new_root.r = Undefined THEN OnUndefined(h, self)
         ELSE IF new_root.r = m.root THEN [h |-> new_root.h, r |-> self, e |-> NoError]
         ELSE Ret(Map_create(new_root.h, m.cnt + new_root.added, new_root.r,
                             m.transient_id)))

Map_dissoc(h, self, key) ==
    LET m == Deref(h, self) IN
    IF m.root = NULL THEN [h |-> h, r |-> self, e |-> NoError]
    ELSE With(Node_dissoc(h, m.root, 0, PyObject_Hash(key), key, m.transient_id),
              LAMBDA new_root :
              IF new_root.r = Undefined THEN OnUndefined(h, self)
              ELSE IF new_root.r = m.root
              THEN [h |-> new_root.h, r |-> self, e |-> NoError]
              ELSE Ret(Map_create(new_root.h,
                                  IF new_root.r # Py_None THEN m.cnt - 1 ELSE 0,
                                  IF new_root.r # Py_None THEN new_root.r ELSE NULL,
                                  m.transient_id)))

\* Map_items: the pairs in iteration order
Map_items(h, self) ==
    IF Deref(h, self).root = NULL THEN <<>> ELSE Node_iter_kv(h, Deref(h, self).root)

\* the loop of Map_richcompare over the items of self from the i-th on: 1 when
\* o holds an equal value for every key, 0 when not, Undefined when a lookup
\* crashed
RECURSIVE Map_richcompare_items(_, _, _, _)
Map_richcompare_items(h, o, items, i) ==
    IF i > Len(items) THEN 1
    ELSE LET key == items[i][1]
             val == items[i][2]
             other_val ==
                 IF key = Undefined THEN Undefined
                 ELSE IF Deref(h, o).root = NULL THEN MISSING
                 ELSE Resolve(Node_find(h, Deref(h, o).root, 0, PyObject_Hash(key),
                                        key, MISSING))
         IN  IF other_val = Undefined THEN Undefined
             ELSE IF other_val = MISSING \/ val # other_val THEN 0
             ELSE Map_richcompare_items(h, o, items, i + 1)

\* self == other
Map_richcompare(h, self, other) ==
    IF self = other THEN 1
    ELSE IF Deref(h, other).kind # "Map" THEN 0
    ELSE IF Deref(h, self).cnt # Deref(h, other).cnt THEN 0
    ELSE Map_richcompare_items(h, other, Map_items(h, self), 1)

----------------------------------------------------------------------------
(* TransientMap, pds.c:6245-6412 *)

\* ensure_editable of the root, whatever its node type
Node_ensure_editable(h, node, transient_id) ==
    CASE Deref(h, node).kind = "BitmapIndexedNode" ->
             BitmapIndexedNode_ensure_editable(h, node, transient_id)
      [] Deref(h, node).kind = "ArrayNode" ->
             ArrayNode_ensure_editable(h, node, transient_id)
      [] OTHER -> HashCollisionNode_ensure_editable(h, node, transient_id)

\* the transient object over an editable copy of the root of self
Transient_over(h, self, id, type) ==
    With(IF Deref(h, self).root # NULL
         THEN Node_ensure_editable(id.h, Deref(h, self).root, id.r)
         ELSE [h |-> id.h, r |-> NULL],
         LAMBDA root :
         Alloc(root.h, [kind |-> type, cnt |-> Deref(h, self).cnt,
                        root |-> root.r, id |-> id.r]))

Map_transient(h, self) == Transient_over(h, self, NewToken(h), "TransientMap")

\* TRUE when the call sets the RuntimeError
TransientMap_ensure_editable(h, self) == Deref(h, self).id = NULL

TransientMap_assoc_mut_impl(h, self, key, val) ==
    LET t == Deref(h, self) IN
    IF TransientMap_ensure_editable(h, self) THEN Raise(h, UseAfterFreeze)
    ELSE With(Node_assoc(h, IF t.root # NULL THEN t.root ELSE EMPTY_BIN, 0,
                         PyObject_Hash(key), key, val, t.id),
              LAMBDA new_root :
              IF new_root.r = Undefined THEN OnUndefined(h, self)
              ELSE [h |-> [new_root.h EXCEPT ![0 - self].root = new_root.r,
                                             ![0 - self].cnt = @ + new_root.added],
                    r |-> self, e |-> NoError])

TransientMap_dissoc_mut(h, self, key) ==
    LET t == Deref(h, self) IN
    IF TransientMap_ensure_editable(h, self) THEN Raise(h, UseAfterFreeze)
    ELSE IF t.root = NULL THEN [h |-> h, r |-> self, e |-> NoError]
    ELSE With(Node_dissoc(h, t.root, 0, PyObject_Hash(key), key, t.id),
              LAMBDA new_root :
              IF new_root.r = Undefined THEN OnUndefined(h, self)
              ELSE IF new_root.r # t.root /\ new_root.r = Py_None
              THEN [h |-> [new_root.h EXCEPT ![0 - self].root = NULL,
                                             ![0 - self].cnt = 0],
                    r |-> self, e |-> NoError]
              ELSE [h |-> [new_root.h EXCEPT ![0 - self].root = new_root.r,
                              ![0 - self].cnt = IF new_root.added > 0 THEN @ - 1 ELSE @],
                    r |-> self, e |-> NoError])

TransientMap_persistent(h, self) ==
    LET t == Deref(h, self) IN
    IF TransientMap_ensure_editable(h, self) THEN Raise(h, UseAfterFreeze)
    ELSE Ret(Map_create([h EXCEPT ![0 - self].id = NULL], t.cnt, t.root, NULL))

\* Map merge (|), pds.c:5971-6131, for a right operand that is a Map
RECURSIVE Map_or_fill(_, _, _, _)
Map_or_fill(h, t, items, i) ==
    IF i > Len(items) THEN [h |-> h, r |-> t, e |-> NoError]
    ELSE With(TransientMap_assoc_mut_impl(h, t, items[i][1], items[i][2]), LAMBDA res :
         IF res.e # NoError THEN res
         ELSE Map_or_fill(res.h, t, items, i + 1))

\* Map_items(right) that descends into a value that is no node is undefined
\* behaviour
Map_or_items(h, left, items) ==
    IF \E i \in 1..Len(items) : items[i][1] = Undefined THEN OnUndefined(h, left)
    ELSE With(Map_transient(h, left), LAMBDA t :
         With(Map_or_fill(t.h, t.r, items, 1), LAMBDA filled :
         IF filled.e # NoError THEN filled
         ELSE TransientMap_persistent(filled.h, t.r)))

Map_or(h, left, right) ==
    IF Deref(h, right).cnt = 0 THEN [h |-> h, r |-> left, e |-> NoError]
    ELSE IF Deref(h, left).cnt = 0 THEN [h |-> h, r |-> right, e |-> NoError]
    ELSE Map_or_items(h, left, Map_items(h, right))

\* pds.hash_map(k1, v1, ...), pds.c:9461-9497; args is the flat argument list
RECURSIVE pds_hash_map_fill(_, _, _, _)
pds_hash_map_fill(h, t, args, i) ==
    IF i >= Len(args) THEN [h |-> h, r |-> t, e |-> NoError]
    ELSE With(TransientMap_assoc_mut_impl(h, t, args[i + 1], args[i + 2]),
              LAMBDA result :
              IF result.e # NoError THEN result
              ELSE pds_hash_map_fill(result.h, t, args, i + 2))

pds_hash_map(h, args) ==
    IF Len(args) = 0 THEN [h |-> h, r |-> EMPTY_MAP, e |-> NoError]
    ELSE With(Map_transient(h, EMPTY_MAP), LAMBDA t :
         With(pds_hash_map_fill(t.h, t.r, args, 0), LAMBDA filled :
         IF filled.e # NoError THEN filled
         ELSE TransientMap_persistent(filled.h, t.r)))

----------------------------------------------------------------------------
(* Set, pds.c:6643-6885: the same HAMT, every value is Py_None *)

Set_create(h, cnt, root, transient_id) ==
    Alloc(h, [kind |-> "Set", cnt |-> cnt, root |-> root,
              transient_id |-> transient_id])

\* 1, 0, or Undefined when the lookup crashed
Set_contains(h, self, key) ==
    IF Deref(h, self).root = NULL THEN 0
    ELSE LET result == Resolve(Node_find(h, Deref(h, self).root, 0,
                                         PyObject_Hash(key), key, MISSING))
         IN  IF result = Undefined THEN Undefined
             ELSE IF result # MISSING THEN 1 ELSE 0

Set_conj(h, self, key) ==
    LET s == Deref(h, self) IN
    With(Node_assoc(h, IF s.root # NULL THEN s.root ELSE EMPTY_BIN, 0,
                    PyObject_Hash(key), key, Py_None, s.transient_id),
         LAMBDA new_root :
         IF new_root.r = Undefined THEN OnUndefined(h, self)
         ELSE IF new_root.r = s.root THEN [h |-> new_root.h, r |-> self, e |-> NoError]
         ELSE Ret(Set_create(new_root.h, s.cnt + new_root.added, new_root.r,
                             s.transient_id)))

Set_disj(h, self, key) ==
    LET s == Deref(h, self) IN
    IF s.root = NULL THEN [h |-> h, r |-> self, e |-> NoError]
    ELSE With(Node_dissoc(h, s.root, 0, PyObject_Hash(key), key, s.transient_id),
              LAMBDA new_root :
              IF new_root.r = Undefined THEN OnUndefined(h, self)
              ELSE IF new_root.r = s.root
              THEN [h |-> new_root.h, r |-> self, e |-> NoError]
              ELSE Ret(Set_create(new_root.h,
                                  IF new_root.r # Py_None THEN s.cnt - 1 ELSE 0,
                                  IF new_root.r # Py_None THEN new_root.r ELSE NULL,
                                  s.transient_id)))

\* the first components of the pairs kv
Firsts(kv) == Tup([p \in 1..Len(kv) |-> kv[p][1]], Len(kv))

\* the keys SetIterator_next yields, in order
Set_iter(h, self) ==
    IF Deref(h, self).root = NULL THEN <<>>
    ELSE Firsts(Node_iter_kv(h, Deref(h, self).root))

----------------------------------------------------------------------------
(* TransientSet, pds.c:7672-7839 *)

Set_transient(h, self) == Transient_over(h, self, NewToken(h), "TransientSet")

\* TRUE when the call sets the RuntimeError
TransientSet_ensure_editable(h, self) == Deref(h, self).id = NULL

TransientSet_conj_mut(h, self, key) ==
    LET t == Deref(h, self) IN
    IF TransientSet_ensure_editable(h, self) THEN Raise(h, UseAfterFreeze)
    ELSE With(Node_assoc(h, IF t.root # NULL THEN t.root ELSE EMPTY_BIN, 0,
                         PyObject_Hash(key), key, Py_None, t.id),
              LAMBDA new_root :
              IF new_root.r = Undefined THEN OnUndefined(h, self)
              ELSE [h |-> [new_root.h EXCEPT ![0 - self].root = new_root.r,
                                             ![0 - self].cnt = @ + new_root.added],
                    r |-> self, e |-> NoError])

\* pds.c:7779-7812: the removal once the key is known to be present
TransientSet_disj_found(h, self, new_root) ==
    IF new_root.r = Undefined THEN OnUndefined(h, self)
    ELSE IF new_root.r = Py_None
    THEN [h |-> [new_root.h EXCEPT ![0 - self].root = NULL, ![0 - self].cnt = 0],
          r |-> self, e |-> NoError]
    ELSE [h |-> [new_root.h EXCEPT ![0 - self].root = new_root.r,
                                   ![0 - self].cnt = @ - 1],
          r |-> self, e |-> NoError]

TransientSet_disj_mut(h, self, key) ==
    LET t == Deref(h, self) IN
    IF TransientSet_ensure_editable(h, self) THEN Raise(h, UseAfterFreeze)
    ELSE IF t.root = NULL THEN [h |-> h, r |-> self, e |-> NoError]
    ELSE With(Resolve(Node_find(h, t.root, 0, PyObject_Hash(key), key, MISSING)),
              LAMBDA found :
              IF found = Undefined THEN Raise(h, UndefinedBehaviour)
              ELSE IF found = MISSING THEN [h |-> h, r |-> self, e |-> NoError]
              ELSE TransientSet_disj_found(h, self,
                       Node_dissoc(h, t.root, 0, PyObject_Hash(key), key, t.id)))

TransientSet_persistent(h, self) ==
    LET t == Deref(h, self) IN
    IF TransientSet_ensure_editable(h, self) THEN Raise(h, UseAfterFreeze)
    ELSE Ret(Set_create([h EXCEPT ![0 - self].id = NULL], t.cnt, t.root, NULL))

\* the loops `while ((key = PyIter_Next(iter)))` of Set_or, Set_and, Set_xor
\* and pds_set: conj_mut of keys[i], keys[i + 1], ... into the transient t
RECURSIVE TransientSet_conj_all(_, _, _, _)
TransientSet_conj_all(h, t, keys, i) ==
    IF i > Len(keys) THEN [h |-> h, r |-> t, e |-> NoError]
    ELSE With(TransientSet_conj_mut(h, t, keys[i]), LAMBDA res :
         IF res.e # NoError THEN res ELSE TransientSet_conj_all(res.h, t, keys, i + 1))

\* the loop of Set_sub: disj_mut of keys[i], keys[i + 1], ...
RECURSIVE TransientSet_disj_all(_, _, _, _)
TransientSet_disj_all(h, t, keys, i) ==
    IF i > Len(keys) THEN [h |-> h, r |-> t, e |-> NoError]
    ELSE With(TransientSet_disj_mut(h, t, keys[i]), LAMBDA res :
         IF res.e # NoError THEN res ELSE TransientSet_disj_all(res.h, t, keys, i + 1))

\* the tail of every bulk operation: the error of the loop, or the frozen set
TransientSet_finish(filled, t) ==
    IF filled.e # NoError THEN filled ELSE TransientSet_persistent(filled.h, t)

\* pds.set(iterable), pds.c:9406-9459
pds_set(h, keys) ==
    With(NewToken(h), LAMBDA id :
    With(Alloc(id.h, [kind |-> "TransientSet", cnt |-> 0, root |-> NULL, id |-> id.r]),
         LAMBDA t :
         TransientSet_finish(TransientSet_conj_all(t.h, t.r, keys, 1), t.r)))

----------------------------------------------------------------------------
(* Set algebra, pds.c:6896-7260, for two Set operands *)

\* the elements of keys at the positions in P, in order
Select(keys, P) ==
    Tup([q \in 1..Cardinality(P) |->
            keys[CHOOSE p \in P : Cardinality({x \in P : x < p}) = q - 1]],
        Cardinality(P))

\* keys with the answers found of the lookups: the keys whose answer is want
Filtered(keys, found, want) ==
    [crashed |-> \E p \in 1..Len(keys) : found[p] = Undefined,
     keys |-> Select(keys, {p \in 1..Len(keys) : found[p] = want})]

Lookups(h, in, keys) == [p \in 1..Len(keys) |-> Set_contains(h, in, keys[p])]

\* the keys of `from` for which Set_contains(in, key) = want, in iteration
\* order; crashed is TRUE when one of the lookups crashed
SetFilter(h, from, in, want) ==
    With(Set_iter(h, from), LAMBDA keys : Filtered(keys, Lookups(h, in, keys), want))

Set_or_into(h, base, to_add) ==
    With(Set_transient(h, base), LAMBDA trans :
    TransientSet_finish(TransientSet_conj_all(trans.h, trans.r, Set_iter(h, to_add), 1),
                        trans.r))

Set_or(h, left, right) ==
    LET self == Deref(h, left)
        other == Deref(h, right)
    IN  IF other.cnt = 0 THEN [h |-> h, r |-> left, e |-> NoError]
        ELSE IF self.cnt = 0 THEN [h |-> h, r |-> right, e |-> NoError]
        ELSE IF self.cnt >= other.cnt THEN Set_or_into(h, left, right)
        ELSE Set_or_into(h, right, left)

Set_and_of(h, smaller, larger) ==
    With(Set_transient(h, EMPTY_SET), LAMBDA trans :
    With(SetFilter(h, smaller, larger, 1), LAMBDA sel :
    IF sel.crashed THEN Raise(h, UndefinedBehaviour)
    ELSE TransientSet_finish(TransientSet_conj_all(trans.h, trans.r, sel.keys, 1),
                             trans.r)))

Set_and(h, left, right) ==
    LET self == Deref(h, left)
        other == Deref(h, right)
    IN  IF self.cnt = 0 THEN [h |-> h, r |-> EMPTY_SET, e |-> NoError]
        ELSE IF other.cnt = 0 THEN [h |-> h, r |-> EMPTY_SET, e |-> NoError]
        ELSE IF self.cnt <= other.cnt THEN Set_and_of(h, left, right)
        ELSE Set_and_of(h, right, left)

Set_sub(h, left, right) ==
    IF Deref(h, left).cnt = 0 THEN [h |-> h, r |-> left, e |-> NoError]
    ELSE With(Set_transient(h, left), LAMBDA trans :
         TransientSet_finish(
             TransientSet_disj_all(trans.h, trans.r, Set_iter(h, right), 1), trans.r))

\* pds.c:7200-7250: the second loop of Set_xor, over the keys of right
Set_xor_second(h, left, right, trans, first) ==
    IF first.e # NoError THEN first
    ELSE With(SetFilter(h, right, left, 0), LAMBDA theirs :
         IF theirs.crashed THEN Raise(h, UndefinedBehaviour)
         ELSE TransientSet_finish(
                  TransientSet_conj_all(first.h, trans.r, theirs.keys, 1), trans.r))

Set_xor(h, left, right) ==
    With(Set_transient(h, EMPTY_SET), LAMBDA trans :
    With(SetFilter(h, left, right, 0), LAMBDA mine :
    IF mine.crashed THEN Raise(h, UndefinedBehaviour)
    ELSE Set_xor_second(h, left, right, trans,
                        TransientSet_conj_all(trans.h, trans.r, mine.keys, 1))))

----------------------------------------------------------------------------

(* RBNode, pds.c:7971-8201 *)

RB_RED == 0
RB_BLACK == 1

Left(h, node) == Deref(h, node).left
Right(h, node) == Deref(h, node).right

RBNode_size(h, node) == IF node = NULL THEN 0 ELSE Deref(h, node).size

RBNode_update_size(h, node) ==
    IF node = NULL THEN h
    ELSE [h EXCEPT ![0 - node].size =
             1 + RBNode_size(h, Left(h, node)) + RBNode_size(h, Right(h, node))]

RBNode_create(h, value, sort_key, color, edit) ==
    Alloc(h, [kind |-> "RBNode", value |-> value, sort_key |-> sort_key,
              left |-> NULL, right |-> NULL, size |-> 1, color |-> color,
              edit |-> edit])

RBNode_clone(h, node, edit) ==
    IF node = NULL THEN [h |-> h, r |-> NULL]
    ELSE Alloc(h, [Deref(h, node) EXCEPT !.edit = edit])

RBNode_is_red(h, node) == node # NULL /\ Deref(h, node).color = RB_RED

RBNode_is_editable(h, node, edit) ==
    node # NULL /\ edit # NULL /\ Deref(h, node).edit = edit

RBNode_ensure_editable(h, node, edit) ==
    IF node = NULL THEN [h |-> h, r |-> NULL]
    ELSE IF RBNode_is_editable(h, node, edit) THEN [h |-> h, r |-> node]
    ELSE RBNode_clone(h, node, edit)

\* PyObject_RichCompareBool on the integer keys of the model
SortedVector_compare_keys(a, b, reverse) ==
    IF a < b THEN (IF reverse # 0 THEN 1 ELSE -1)
    ELSE IF a > b THEN (IF reverse # 0 THEN -1 ELSE 1)
    ELSE 0

RBNode_rotate_left(h, hn, edit) ==
    With(RBNode_ensure_editable(h, Right(h, hn), edit), LAMBDA x :
    IF x.r = NULL THEN x
    ELSE With(RBNode_ensure_editable(x.h, hn, edit), LAMBDA new_h :
         With([new_h.h EXCEPT ![0 - new_h.r].right = Left(new_h.h, x.r)], LAMBDA h1 :
         With([h1 EXCEPT ![0 - x.r].left = new_h.r], LAMBDA h2 :
         With([h2 EXCEPT ![0 - x.r].color = Deref(h2, new_h.r).color], LAMBDA h3 :
         With([h3 EXCEPT ![0 - new_h.r].color = RB_RED], LAMBDA h4 :
         With(RBNode_update_size(h4, new_h.r), LAMBDA h5 :
         [h |-> RBNode_update_size(h5, x.r), r |-> x.r])))))))

RBNode_rotate_right(h, hn, edit) ==
    With(RBNode_ensure_editable(h, Left(h, hn), edit), LAMBDA x :
    IF x.r = NULL THEN x
    ELSE With(RBNode_ensure_editable(x.h, hn, edit), LAMBDA new_h :
         With([new_h.h EXCEPT ![0 - new_h.r].left = Right(new_h.h, x.r)], LAMBDA h1 :
         With([h1 EXCEPT ![0 - x.r].right = new_h.r], LAMBDA h2 :
         With([h2 EXCEPT ![0 - x.r].color = Deref(h2, new_h.r).color], LAMBDA h3 :
         With([h3 EXCEPT ![0 - new_h.r].color = RB_RED], LAMBDA h4 :
         With(RBNode_update_size(h4, new_h.r), LAMBDA h5 :
         [h |-> RBNode_update_size(h5, x.r), r |-> x.r])))))))

\* one child of new_h made editable and given the other colour
RBNode_flip_child(h, new_h, side, edit) ==
    IF Deref(h, new_h)[side] = NULL THEN h
    ELSE With(RBNode_ensure_editable(h, Deref(h, new_h)[side], edit), LAMBDA c :
         [c.h EXCEPT ![0 - c.r].color = 1 - @, ![0 - new_h][side] = c.r])

RBNode_flip_colors(h, hn, edit) ==
    With(RBNode_ensure_editable(h, hn, edit), LAMBDA new_h :
    With([new_h.h EXCEPT ![0 - new_h.r].color = 1 - @], LAMBDA h1 :
    With(RBNode_flip_child(h1, new_h.r, "left", edit), LAMBDA h2 :
    [h |-> RBNode_flip_child(h2, new_h.r, "right", edit), r |-> new_h.r])))

RBNode_balance(h, hn, edit) ==
    IF hn = NULL THEN [h |-> h, r |-> NULL]
    ELSE
    With(IF RBNode_is_red(h, Right(h, hn)) /\ ~RBNode_is_red(h, Left(h, hn))
         THEN RBNode_rotate_left(h, hn, edit) ELSE [h |-> h, r |-> hn], LAMBDA a :
    With(IF a.r = NULL THEN a
         ELSE IF /\ RBNode_is_red(a.h, Left(a.h, a.r))
                 /\ RBNode_is_red(a.h, Left(a.h, Left(a.h, a.r)))
         THEN RBNode_rotate_right(a.h, a.r, edit) ELSE a, LAMBDA b :
    With(IF b.r = NULL THEN b
         ELSE IF /\ RBNode_is_red(b.h, Left(b.h, b.r))
                 /\ RBNode_is_red(b.h, Right(b.h, b.r))
         THEN RBNode_flip_colors(b.h, b.r, edit) ELSE b, LAMBDA c :
    IF c.r = NULL THEN c
    ELSE [h |-> RBNode_update_size(c.h, c.r), r |-> c.r])))

----------------------------------------------------------------------------
(* SortedVector, pds.c:8203-8582 *)

\* the key function of the model: two values share each key
PyObject_CallOneArg(key_fn, value) == (value + 1) \div 2

SortedVector_create(h, root, cnt, key_fn, reverse) ==
    Alloc(h, [kind |-> "SortedVector", root |-> root, cnt |-> cnt,
              key_fn |-> key_fn, reverse |-> reverse])

SortedVector_get_sort_key(h, self, value) ==
    LET key_fn == Deref(h, self).key_fn IN
    IF key_fn # NULL /\ key_fn # Py_None THEN PyObject_CallOneArg(key_fn, value)
    ELSE value

RECURSIVE RBNode_insert(_, _, _, _, _, _)
RBNode_insert(h, hn, value, sort_key, reverse, edit) ==
    IF hn = NULL THEN RBNode_create(h, value, sort_key, RB_RED, edit)
    ELSE LET cmp == SortedVector_compare_keys(sort_key, Deref(h, hn).sort_key, reverse)
             side == IF cmp < 0 THEN "left" ELSE "right"
         IN  With(RBNode_ensure_editable(h, hn, edit), LAMBDA new_h :
             With(RBNode_insert(new_h.h, Deref(new_h.h, new_h.r)[side], value,
                                sort_key, reverse, edit), LAMBDA child :
             RBNode_balance([child.h EXCEPT ![0 - new_h.r][side] = child.r],
                            new_h.r, edit)))

\* a red root is replaced by a black clone
RBNode_black_root(h, new_root, edit) ==
    IF new_root # NULL /\ Deref(h, new_root).color = RB_RED
    THEN With(RBNode_clone(h, new_root, edit), LAMBDA black_root :
         [h |-> [black_root.h EXCEPT ![0 - black_root.r].color = RB_BLACK],
          r |-> black_root.r])
    ELSE [h |-> h, r |-> new_root]

SortedVector_conj(h, self, value) ==
    LET sv == Deref(h, self) IN
    With(RBNode_insert(h, sv.root, value, SortedVector_get_sort_key(h, self, value),
                       sv.reverse, NULL), LAMBDA new_root :
    With(RBNode_black_root(new_root.h, new_root.r, NULL), LAMBDA black :
    Ret(SortedVector_create(black.h, black.r, sv.cnt + 1, sv.key_fn, sv.reverse))))

RECURSIVE RBNode_nth(_, _, _)
RBNode_nth(h, node, index) ==
    IF node = NULL THEN [r |-> NULL, e |-> IndexError]
    ELSE LET left_size == RBNode_size(h, Left(h, node)) IN
         IF index < left_size THEN RBNode_nth(h, Left(h, node), index)
         ELSE IF index = left_size THEN [r |-> Deref(h, node).value, e |-> NoError]
         ELSE RBNode_nth(h, Right(h, node), index - left_size - 1)

SortedVector_nth(h, self, index0, default_val) ==
    LET cnt == Deref(h, self).cnt
        index == IF index0 < 0 THEN index0 + cnt ELSE index0
    IN  IF index < 0 \/ index >= cnt
        THEN IF default_val # NULL THEN [r |-> default_val, e |-> NoError]
             ELSE [r |-> NULL, e |-> IndexError]
        ELSE RBNode_nth(h, Deref(h, self).root, index)

\* self[key] for an integer key
SortedVector_getitem(h, self, key) ==
    LET cnt == Deref(h, self).cnt
        index == IF key < 0 THEN key + cnt ELSE key
    IN  IF index < 0 \/ index >= cnt THEN [r |-> NULL, e |-> IndexError]
        ELSE RBNode_nth(h, Deref(h, self).root, index)

\* rank and index_of, pds.c:8408-8504; the keys of the exploration are integers,
\* whose comparison does not fail
RECURSIVE RBNode_index_of(_, _, _, _, _)
RBNode_index_of(h, node, sort_key, reverse, offset) ==
    IF node = NULL THEN -1
    ELSE LET cmp == SortedVector_compare_keys(sort_key, Deref(h, node).sort_key, reverse)
             left_size == RBNode_size(h, Left(h, node))
         IN  IF cmp < 0 THEN RBNode_index_of(h, Left(h, node), sort_key, reverse, offset)
             ELSE IF cmp > 0
             THEN RBNode_index_of(h, Right(h, node), sort_key, reverse,
                                  offset + left_size + 1)
             ELSE With(RBNode_index_of(h, Left(h, node), sort_key, reverse, offset),
                       LAMBDA left_result :
                       IF left_result >= 0 THEN left_result ELSE offset + left_size)

SortedVector_index_of(h, self, value) ==
    RBNode_index_of(h, Deref(h, self).root, SortedVector_get_sort_key(h, self, value),
                    Deref(h, self).reverse, 0)

RECURSIVE RBNode_rank(_, _, _, _)
\* RBNode_rank descending to the right at an equal key
RBNode_rank_past_ties(h, node, sort_key, reverse) ==
    IF node = NULL THEN 0
    ELSE LET cmp == SortedVector_compare_keys(sort_key, Deref(h, node).sort_key, reverse)
             left_size == RBNode_size(h, Left(h, node))
         IN  IF cmp < 0 THEN RBNode_rank(h, Left(h, node), sort_key, reverse)
             ELSE left_size + 1 + RBNode_rank(h, Right(h, node), sort_key, reverse)

RBNode_rank(h, node, sort_key, reverse) ==
    IF node = NULL THEN 0
    ELSE LET cmp == SortedVector_compare_keys(sort_key, Deref(h, node).sort_key, reverse)
             left_size == RBNode_size(h, Left(h, node))
         IN  IF cmp <= 0 THEN RBNode_rank(h, Left(h, node), sort_key, reverse)
             ELSE left_size + 1 + RBNode_rank(h, Right(h, node), sort_key, reverse)

SortedVector_rank(h, self, value) ==
    RBNode_rank(h, Deref(h, self).root, SortedVector_get_sort_key(h, self, value),
                Deref(h, self).reverse)

\* the iterator's stack after pushing the left spine of node
RECURSIVE SortedVectorIterator_push_left(_, _, _)
SortedVectorIterator_push_left(h, stack, node) ==
    IF node = NULL THEN stack
    ELSE SortedVectorIterator_push_left(h, Append(stack, node), Left(h, node))

SortedVector_iter(h, self) ==
    SortedVectorIterator_push_left(h, <<>>, Deref(h, self).root)

\* one call of next: the node popped and the stack left; NULL is StopIteration
SortedVectorIterator_next(h, stack) ==
    IF Len(stack) = 0 THEN [node |-> NULL, stack |-> stack]
    ELSE LET node == stack[Len(stack)] IN
         [node |-> node,
          stack |-> SortedVectorIterator_push_left(
                        h, SubSeq(stack, 1, Len(stack) - 1), Right(h, node))]

\* the nodes a for loop over the iterator meets
RECURSIVE SortedVectorIterator_all(_, _)
SortedVectorIterator_all(h, stack) ==
    With(SortedVectorIterator_next(h, stack), LAMBDA n :
    IF n.node = NULL THEN <<>>
    ELSE <<n.node>> \o SortedVectorIterator_all(h, n.stack))

----------------------------------------------------------------------------
(* SortedVector disj, pds.c:8727-8929 *)

RBNode_move_red_left(h, hn, edit) ==
    With(RBNode_flip_colors(h, hn, edit), LAMBDA f :
    IF Right(f.h, f.r) # NULL /\ RBNode_is_red(f.h, Left(f.h, Right(f.h, f.r)))
    THEN With(RBNode_rotate_right(f.h, Right(f.h, f.r), edit), LAMBDA new_right :
         With(RBNode_rotate_left([new_right.h EXCEPT ![0 - f.r].right = new_right.r],
                                 f.r, edit), LAMBDA rl :
         RBNode_flip_colors(rl.h, rl.r, edit)))
    ELSE f)

RBNode_move_red_right(h, hn, edit) ==
    With(RBNode_flip_colors(h, hn, edit), LAMBDA f :
    IF Left(f.h, f.r) # NULL /\ RBNode_is_red(f.h, Left(f.h, Left(f.h, f.r)))
    THEN With(RBNode_rotate_right(f.h, f.r, edit), LAMBDA rr :
         RBNode_flip_colors(rr.h, rr.r, edit))
    ELSE f)

RECURSIVE RBNode_min(_, _)
RBNode_min(h, node) ==
    IF Left(h, node) # NULL THEN RBNode_min(h, Left(h, node)) ELSE node

\* hn with its left (right) child replaced by child.r, rebalanced
RBNode_relink(child, hn, side, edit) ==
    RBNode_balance([child.h EXCEPT ![0 - hn][side] = child.r], hn, edit)

RECURSIVE RBNode_delete_min(_, _, _)
RBNode_delete_min(h, hn, edit) ==
    With(RBNode_ensure_editable(h, hn, edit), LAMBDA new_h :
    IF new_h.r = NULL THEN new_h
    ELSE IF Left(new_h.h, new_h.r) = NULL THEN [h |-> new_h.h, r |-> NULL]
    ELSE With(IF /\ ~RBNode_is_red(new_h.h, Left(new_h.h, new_h.r))
                 /\ ~RBNode_is_red(new_h.h, Left(new_h.h, Left(new_h.h, new_h.r)))
              THEN RBNode_move_red_left(new_h.h, new_h.r, edit) ELSE new_h, LAMBDA m :
         RBNode_relink(RBNode_delete_min(m.h, Left(m.h, m.r), edit), m.r, "left",
                       edit)))

\* b with what the recursive call left in *deleted
RBNode_deleted(b, deleted) == [h |-> b.h, r |-> b.r, deleted |-> deleted]

\* the key and the value of node match the ones to delete
RBNode_matches(h, node, sort_key, value, reverse) ==
    /\ SortedVector_compare_keys(sort_key, Deref(h, node).sort_key, reverse) = 0
    /\ value = Deref(h, node).value

\* deleted is what the code leaves in *deleted; Undefined stands for the
\* dereference of a NULL right child in RBNode_min
RECURSIVE RBNode_delete(_, _, _, _, _, _)
RBNode_delete(h, hn, sort_key, value, reverse, edit) ==
    IF hn = NULL THEN [h |-> h, r |-> NULL, deleted |-> 0]
    ELSE
    With(RBNode_ensure_editable(h, hn, edit), LAMBDA new_h :
    IF SortedVector_compare_keys(sort_key, Deref(h, hn).sort_key, reverse) < 0
    THEN With(IF /\ Left(new_h.h, new_h.r) # NULL
                 /\ ~RBNode_is_red(new_h.h, Left(new_h.h, new_h.r))
                 /\ ~RBNode_is_red(new_h.h, Left(new_h.h, Left(new_h.h, new_h.r)))
              THEN RBNode_move_red_left(new_h.h, new_h.r, edit) ELSE new_h, LAMBDA m :
         With(RBNode_delete(m.h, Left(m.h, m.r), sort_key, value, reverse, edit),
              LAMBDA new_left :
         RBNode_deleted(RBNode_relink(new_left, m.r, "left", edit), new_left.deleted)))
    ELSE With(IF RBNode_is_red(new_h.h, Left(new_h.h, new_h.r))
              THEN RBNode_rotate_right(new_h.h, new_h.r, edit) ELSE new_h, LAMBDA a :
         IF /\ RBNode_matches(a.h, a.r, sort_key, value, reverse)
            /\ Right(a.h, a.r) = NULL
         THEN [h |-> a.h, r |-> NULL, deleted |-> 1]
         ELSE
         With(IF /\ Right(a.h, a.r) # NULL
                 /\ ~RBNode_is_red(a.h, Right(a.h, a.r))
                 /\ ~RBNode_is_red(a.h, Left(a.h, Right(a.h, a.r)))
              THEN RBNode_move_red_right(a.h, a.r, edit) ELSE a, LAMBDA m :
         IF RBNode_matches(m.h, m.r, sort_key, value, reverse)
         THEN IF Right(m.h, m.r) = NULL
              THEN [h |-> m.h, r |-> NULL, deleted |-> Undefined]
              ELSE
              LET min_node == Deref(m.h, RBNode_min(m.h, Right(m.h, m.r))) IN
              RBNode_deleted(
                  RBNode_relink(
                      RBNode_delete_min(
                          [m.h EXCEPT ![0 - m.r].value = min_node.value,
                                      ![0 - m.r].sort_key = min_node.sort_key],
                          Right(m.h, m.r), edit),
                      m.r, "right", edit),
                  1)
         ELSE With(RBNode_delete(m.h, Right(m.h, m.r), sort_key, value, reverse, edit),
                   LAMBDA new_right :
              RBNode_deleted(RBNode_relink(new_right, m.r, "right", edit),
                             new_right.deleted)))))

\* new_root->color = RB_BLACK, in place
RBNode_blacken(h, new_root) ==
    IF new_root # NULL /\ Deref(h, new_root).color = RB_RED
    THEN [h EXCEPT ![0 - new_root].color = RB_BLACK] ELSE h

SortedVector_disj(h, self, value) ==
    LET sv == Deref(h, self) IN
    IF sv.cnt = 0 THEN [h |-> h, r |-> self, e |-> NoError]
    ELSE With(RBNode_delete(h, sv.root, SortedVector_get_sort_key(h, self, value),
                            value, sv.reverse, NULL), LAMBDA new_root :
         IF new_root.deleted = Undefined THEN Raise(h, UndefinedBehaviour)
         ELSE IF new_root.deleted = 0 THEN [h |-> h, r |-> self, e |-> NoError]
         ELSE Ret(SortedVector_create(RBNode_blacken(new_root.h, new_root.r),
                                      new_root.r, sv.cnt - 1, sv.key_fn, sv.reverse)))

----------------------------------------------------------------------------
(* TransientSortedVector, pds.c:8983-9114 *)

TransientSortedVector_ensure_editable(h, self) == Deref(h, self).id = NULL

SortedVector_transient(h, self) ==
    LET sv == Deref(h, self) IN
    With(NewToken(h), LAMBDA id :
    Ret(Alloc(id.h, [kind |-> "TransientSortedVector", root |-> sv.root,
                     cnt |-> sv.cnt, key_fn |-> sv.key_fn,
                     reverse |-> sv.reverse, id |-> id.r])))

TransientSortedVector_get_sort_key(h, self, value) ==
    LET key_fn == Deref(h, self).key_fn IN
    IF key_fn # NULL /\ key_fn # Py_None THEN PyObject_CallOneArg(key_fn, value)
    ELSE value

TransientSortedVector_conj_mut(h, self, value) ==
    IF TransientSortedVector_ensure_editable(h, self) THEN Raise(h, UseAfterFreeze)
    ELSE LET t == Deref(h, self) IN
         With(RBNode_insert(h, t.root, value,
                            TransientSortedVector_get_sort_key(h, self, value),
                            t.reverse, t.id), LAMBDA new_root :
         [h |-> [RBNode_blacken(new_root.h, new_root.r)
                    EXCEPT ![0 - self].root = new_root.r, ![0 - self].cnt = @ + 1],
          r |-> self, e |-> NoError])

TransientSortedVector_disj_mut(h, self, value) ==
    IF TransientSortedVector_ensure_editable(h, self) THEN Raise(h, UseAfterFreeze)
    ELSE LET t == Deref(h, self) IN
         IF t.cnt = 0 THEN [h |-> h, r |-> self, e |-> NoError]
         ELSE With(RBNode_delete(h, t.root,
                                 TransientSortedVector_get_sort_key(h, self, value),
                                 value, t.reverse, t.id), LAMBDA new_root :
              IF new_root.deleted = Undefined THEN Raise(h, UndefinedBehaviour)
              ELSE IF new_root.deleted # 0
              THEN [h |-> [RBNode_blacken(new_root.h, new_root.r)
                              EXCEPT ![0 - self].root = new_root.r,
                                     ![0 - self].cnt = @ - 1],
                    r |-> self, e |-> NoError]
              ELSE [h |-> new_root.h, r |-> self, e |-> NoError])

TransientSortedVector_persistent(h, self) ==
    IF TransientSortedVector_ensure_editable(h, self) THEN Raise(h, UseAfterFreeze)
    ELSE LET t == Deref(h, self) IN
         With(SortedVector_create(h, t.root, t.cnt, t.key_fn, t.reverse),
              LAMBDA result :
         [h |-> [result.h EXCEPT ![0 - self].id = NULL], r |-> result.r,
          e |-> NoError])

----------------------------------------------------------------------------
(* pds_sorted_vec, pds.c:9573-9621 *)

RECURSIVE pds_sorted_vec_fill(_, _, _, _)
pds_sorted_vec_fill(h, sv, iterable, i) ==
    IF i > Len(iterable) THEN [h |-> h, r |-> sv, e |-> NoError]
    ELSE With(SortedVector_conj(h, sv, iterable[i]), LAMBDA new_sv :
         pds_sorted_vec_fill(new_sv.h, new_sv.r, iterable, i + 1))

pds_sorted_vec(h, iterable, key_fn, reverse) ==
    With(SortedVector_create(h, NULL, 0, IF key_fn # Py_None THEN key_fn ELSE NULL,
                             reverse), LAMBDA sv :
    pds_sorted_vec_fill(sv.h, sv.r, iterable, 1))

----------------------------------------------------------------------------
(* DoubleVector, pds.c:1546-1941. IntVector, pds.c:2611-2990, is the same  *)
(* text over int64_t. The nodes are reference counted by hand and their    *)
(* dealloc releases no child, so the counts are part of the model: a node  *)
(* whose ob_refcnt reached 0 has been handed back to the allocator.        *)

Py_INCREF(h, o) == [h EXCEPT ![0 - o].ob_refcnt = @ + 1]
Py_DECREF(h, o) == [h EXCEPT ![0 - o].ob_refcnt = IF @ > 0 THEN @ - 1 ELSE 0]
Py_XDECREF(h, o) == IF o = NULL THEN h ELSE Py_DECREF(h, o)

\* a read of freed memory either faults or finds the old bytes still there
Stale == -1000001
Dangling(h, o) == Deref(h, o).ob_refcnt = 0 /\ ub # Stale

DoubleVectorNode_create(h, transient_id) ==
    Alloc(h, [kind |-> "DoubleVectorNode",
              array |-> Tup([j \in 1..WIDTH |-> 0], WIDTH),
              valid_mask |-> {}, transient_id |-> transient_id, ob_refcnt |-> 1])

DoubleVectorNode_clone(h, self, transient_id) ==
    With(DoubleVectorNode_create(h, transient_id), LAMBDA node :
    [h |-> [node.h EXCEPT ![0 - node.r].array = Deref(h, self).array,
                          ![0 - node.r].valid_mask = Deref(h, self).valid_mask],
     r |-> node.r])

DoubleVectorNode_is_editable(h, self, transient_id) ==
    transient_id # NULL /\ Deref(h, self).transient_id = transient_id

DoubleVector_create(h, cnt, shift, root, tail, tail_len, transient_id) ==
    Alloc(Py_INCREF(h, root),
          [kind |-> "DoubleVector", cnt |-> cnt, shift |-> shift, root |-> root,
           tail |-> IF tail_len > 0 THEN SubSeq(tail, 1, tail_len) ELSE <<>>,
           transient_id |-> transient_id])

DoubleVector_tail_off(h, self) ==
    LET cnt == Deref(h, self).cnt IN
    IF cnt < WIDTH THEN 0 ELSE ((cnt - 1) \div WIDTH) * WIDTH

\* the loop of array_for: the leaf of index i, Undefined when the walk
\* reads a node that has been freed
RECURSIVE DoubleVector_walk(_, _, _, _)
DoubleVector_walk(h, node, level, i) ==
    IF Dangling(h, node) THEN Undefined
    ELSE IF level = 0 THEN node
    ELSE DoubleVector_walk(h, Deref(h, node).array[Sub(i, level) + 1], level - BITS, i)

DoubleVector_nth_raw(h, self, i) ==
    LET vec == Deref(h, self) IN
    IF i >= DoubleVector_tail_off(h, self) THEN vec.tail[(i % WIDTH) + 1]
    ELSE With(DoubleVector_walk(h, vec.root, vec.shift, i), LAMBDA leaf :
         IF leaf = Undefined THEN Undefined
         ELSE Deref(h, leaf).array[(i % WIDTH) + 1])

DoubleVector_nth(h, self, i0, default_val) ==
    LET cnt == Deref(h, self).cnt
        i == IF i0 < 0 THEN cnt + i0 ELSE i0
    IN  IF i < 0 \/ i >= cnt
        THEN IF default_val # NULL THEN [r |-> default_val, e |-> NoError]
             ELSE [r |-> NULL, e |-> IndexError]
        ELSE [r |-> DoubleVector_nth_raw(h, self, i), e |-> NoError]

RECURSIVE DoubleVector_new_path(_, _, _, _)
DoubleVector_new_path(h, level, node, transient_id) ==
    IF level = 0 THEN [h |-> Py_INCREF(h, node), r |-> node]
    ELSE With(DoubleVectorNode_create(h, transient_id), LAMBDA ret :
         With(DoubleVector_new_path(ret.h, level - BITS, node, transient_id),
              LAMBDA child :
              [h |-> [child.h EXCEPT ![0 - ret.r].array[1] = child.r,
                                     ![0 - ret.r].valid_mask = {0}],
               r |-> ret.r]))

\* pds.c:1712-1718: node_to_insert replaces the child at subidx of ret, the
\* child that was there is released
DoubleVector_set_child(h, ret, subidx, node_to_insert) ==
    [h |-> [(IF subidx \in Deref(h, ret).valid_mask
             THEN Py_XDECREF(h, Deref(h, ret).array[subidx + 1])
             ELSE h)
               EXCEPT ![0 - ret].array[subidx + 1] = node_to_insert,
                      ![0 - ret].valid_mask = @ \cup {subidx}],
     r |-> ret]

\* cnt is self->cnt; r is Undefined when parent has been freed
RECURSIVE DoubleVector_push_tail(_, _, _, _, _, _)

\* pds.c:1690-1710: the node to insert below the copy ret of parent
DoubleVector_node_to_insert(h, cnt, level, parent, subidx, tail_node, transient_id) ==
    LET child == Deref(h, parent).array[subidx + 1] IN
    IF level = BITS THEN [h |-> Py_INCREF(h, tail_node), r |-> tail_node]
    ELSE IF child # NULL /\ subidx \in Deref(h, parent).valid_mask
    THEN DoubleVector_push_tail(h, cnt, level - BITS, child, tail_node, transient_id)
    ELSE DoubleVector_new_path(h, level - BITS, tail_node, transient_id)

DoubleVector_push_tail(h, cnt, level, parent, tail_node, transient_id) ==
    IF Dangling(h, parent) THEN [h |-> h, r |-> Undefined]
    ELSE With(IF DoubleVectorNode_is_editable(h, parent, transient_id)
              THEN [h |-> Py_INCREF(h, parent), r |-> parent]
              ELSE DoubleVectorNode_clone(h, parent, transient_id),
              LAMBDA ret :
              With(DoubleVector_node_to_insert(ret.h, cnt, level, parent,
                       Sub(cnt - 1, level), tail_node, transient_id),
                   LAMBDA node_to_insert :
                   IF node_to_insert.r = Undefined THEN node_to_insert
                   ELSE DoubleVector_set_child(node_to_insert.h, ret.r,
                            Sub(cnt - 1, level), node_to_insert.r)))

\* the tail copied into a fresh leaf
DoubleVector_tail_node(h, tail, transient_id) ==
    With(DoubleVectorNode_create(h, transient_id), LAMBDA tail_node :
    [h |-> [tail_node.h EXCEPT
              ![0 - tail_node.r].array =
                  Tup([j \in 1..WIDTH |-> IF j <= Len(tail) THEN tail[j] ELSE 0], WIDTH),
              ![0 - tail_node.r].valid_mask = {j - 1 : j \in 1..Len(tail)}],
     r |-> tail_node.r])

\* a new root over the old one and a path to the tail node
DoubleVector_overflow_root(h, root, shift, tail_node, transient_id) ==
    With(DoubleVectorNode_create(h, transient_id), LAMBDA new_root :
    With(DoubleVector_new_path(
             Py_INCREF([new_root.h EXCEPT ![0 - new_root.r].array[1] = root,
                                          ![0 - new_root.r].valid_mask = {0}], root),
             shift, tail_node, transient_id),
         LAMBDA path :
         [h |-> [path.h EXCEPT ![0 - new_root.r].array[2] = path.r,
                               ![0 - new_root.r].valid_mask = @ \cup {1}],
          r |-> new_root.r]))

\* pds.c:1790-1800: the new vector over new_root, the local references dropped
DoubleVector_conj_result(h, vec, val, tail_node, new_root, new_shift) ==
    IF new_root.r = Undefined THEN Raise(h, UndefinedBehaviour)
    ELSE With(DoubleVector_create(Py_DECREF(new_root.h, tail_node), vec.cnt + 1,
                                  new_shift, new_root.r, <<val>>, 1, vec.transient_id),
              LAMBDA result :
              [h |-> Py_DECREF(result.h, new_root.r), r |-> result.r, e |-> NoError])

DoubleVector_conj(h, self, val) ==
    LET vec == Deref(h, self)
        transient_id == vec.transient_id
    IN  IF vec.cnt - DoubleVector_tail_off(h, self) < WIDTH
        THEN Ret(DoubleVector_create(h, vec.cnt + 1, vec.shift, vec.root,
                                     Append(vec.tail, val), Len(vec.tail) + 1,
                                     transient_id))
        ELSE With(DoubleVector_tail_node(h, vec.tail, transient_id), LAMBDA tail_node :
             IF (vec.cnt \div WIDTH) > 2 ^ vec.shift
             THEN DoubleVector_conj_result(h, vec, val, tail_node.r,
                      DoubleVector_overflow_root(tail_node.h, vec.root, vec.shift,
                                                 tail_node.r, transient_id),
                      vec.shift + BITS)
             ELSE DoubleVector_conj_result(h, vec, val, tail_node.r,
                      DoubleVector_push_tail(tail_node.h, vec.cnt, vec.shift,
                                             vec.root, tail_node.r, transient_id),
                      vec.shift))

----------------------------------------------------------------------------
(* TransientDoubleVector, pds.c:2142-2454; TransientIntVector,             *)
(* pds.c:3186-3498, is the same text over int64_t                          *)

\* an ensure_editable that never raises
TransientDoubleVector_ensure_editable_skipped(h, self) == FALSE

TransientDoubleVector_ensure_editable(h, self) == Deref(h, self).id = NULL

TransientDoubleVector_new_path(h, self, level, node) ==
    DoubleVector_new_path(h, level, node, Deref(h, self).id)

TransientDoubleVector_push_tail(h, self, level, parent, tail_node) ==
    DoubleVector_push_tail(h, Deref(h, self).cnt, level, parent, tail_node,
                           Deref(h, self).id)

\* pds.c:2290-2300: the new root installed, the old root and the local
\* reference to the tail node released; h1 is the heap before the push
TransientDoubleVector_set_root(h1, self, old_root, tail_node, new_root, grow) ==
    IF new_root.r = Undefined THEN [h |-> h1, r |-> Undefined]
    ELSE [h |-> [Py_DECREF([Py_DECREF(new_root.h, old_root)
                               EXCEPT ![0 - self].root = new_root.r,
                                      ![0 - self].shift = @ + grow],
                           tail_node)
                    EXCEPT ![0 - self].cnt = @ + 1],
          r |-> 0]

\* pds.c:2262-2289: the full tail becomes a leaf of the trie
TransientDoubleVector_push(h1, self, t, tail_node) ==
    IF (t.cnt \div WIDTH) > 2 ^ t.shift
    THEN TransientDoubleVector_set_root(h1, self, t.root, tail_node,
             DoubleVector_overflow_root(h1, t.root, t.shift, tail_node, t.id), BITS)
    ELSE TransientDoubleVector_set_root(h1, self, t.root, tail_node,
             TransientDoubleVector_push_tail(h1, self, t.shift, t.root, tail_node), 0)

\* r is 0 on success, Undefined when the push read a freed node
TransientDoubleVector_conj_mut_raw(h, self, dval) ==
    LET t == Deref(h, self)
        tail_off == IF t.cnt < WIDTH THEN 0 ELSE ((t.cnt - 1) \div WIDTH) * WIDTH
    IN  IF t.cnt - tail_off < WIDTH
        THEN [h |-> [h EXCEPT ![0 - self].tail = Append(@, dval),
                              ![0 - self].cnt = @ + 1],
              r |-> 0]
        ELSE With(DoubleVector_tail_node(h, t.tail, t.id), LAMBDA tail_node :
             TransientDoubleVector_push([tail_node.h EXCEPT ![0 - self].tail = <<dval>>],
                                        self, t, tail_node.r))

TransientDoubleVector_conj_mut(h, self, val) ==
    IF TransientDoubleVector_ensure_editable(h, self) THEN Raise(h, UseAfterFreeze)
    ELSE With(TransientDoubleVector_conj_mut_raw(h, self, val), LAMBDA done :
         IF done.r = Undefined THEN Raise(done.h, UndefinedBehaviour)
         ELSE [h |-> done.h, r |-> self, e |-> NoError])

TransientDoubleVector_persistent(h, self) ==
    IF TransientDoubleVector_ensure_editable(h, self) THEN Raise(h, UseAfterFreeze)
    ELSE LET t == Deref(h, self) IN
         Ret(DoubleVector_create([h EXCEPT ![0 - self].id = NULL], t.cnt, t.shift,
                                 t.root, t.tail, Len(t.tail), NULL))

DoubleVector_transient(h, self) ==
    LET vec == Deref(h, self) IN
    With(NewToken(h), LAMBDA id :
    With(DoubleVectorNode_clone(id.h, vec.root, id.r), LAMBDA root :
    Ret(Alloc(root.h, [kind |-> "TransientDoubleVector", cnt |-> vec.cnt,
                       shift |-> vec.shift, root |-> root.r, tail |-> vec.tail,
                       id |-> id.r]))))

----------------------------------------------------------------------------
(* pds_vec_f64, pds.c:9503-9536 *)

\* the loop over args: conj_mut_raw(args[lo]), ..., conj_mut_raw(args[hi]) in order
RECURSIVE pds_vec_f64_fill(_, _, _, _, _)
pds_vec_f64_fill(h, t, args, lo, hi) ==
    IF lo > hi THEN h
    ELSE IF lo = hi THEN TransientDoubleVector_conj_mut_raw(h, t, args[lo]).h
    ELSE With(pds_vec_f64_fill(h, t, args, lo, (lo + hi) \div 2), LAMBDA h1 :
         IF Len(h1) = 0 THEN h1
         ELSE pds_vec_f64_fill(h1, t, args, (lo + hi) \div 2 + 1, hi))

pds_vec_f64(h, args) ==
    With(DoubleVector_transient(h, EMPTY_DOUBLE_VECTOR), LAMBDA t :
    TransientDoubleVector_persistent(pds_vec_f64_fill(t.h, t.r, args, 1, Len(args)),
                                     t.r))

----------------------------------------------------------------------------

(* Hashing and equality, pds.c:1054-1116, 5697-5807, 7262-7344, 8637-8725.  *)
(* A Py_hash_t is a 64-bit two's complement integer: it is kept as its      *)
(* eight bytes, least significant first, so that the wrap-around of the C   *)
(* arithmetic is the arithmetic of the model.  Vector, Map and Set store    *)
(* the hash in the object on the first call (hash_computed); the operators  *)
(* below are that first call.                                               *)
----------------------------------------------------------------------------
HashBytes == 1..8

\* what a hash function that ran into undefined behaviour returns: no value.
\* The loops below compare their accumulator with it, which also makes TLC
\* evaluate the accumulator before the next iteration rather than after the last.
Hash_undefined == <<>>

\* the low n bytes of the natural number x
RECURSIVE Hash_bytes(_, _)
Hash_bytes(x, n) ==
    IF n = 0 THEN <<>> ELSE <<x % 256>> \o Hash_bytes(x \div 256, n - 1)

\* (Py_hash_t)x for a natural number x
Hash_of(x) == Hash_bytes(x, 8)

\* the constant -1 of the error checks, and -2 that replaces it
Hash_minus(x) == Tup([j \in HashBytes |-> IF j = 1 THEN 256 - x ELSE 255], 8)

\* column sums to bytes: the carry out of the last byte is dropped
RECURSIVE Hash_carry(_, _, _)
Hash_carry(cols, j, carry) ==
    IF j > Len(cols) THEN <<>>
    ELSE <<(cols[j] + carry) % 256>>
         \o Hash_carry(cols, j + 1, (cols[j] + carry) \div 256)

\* a + b
Hash_add(a, b) == Hash_carry(Tup([j \in HashBytes |-> a[j] + b[j]], 8), 1, 0)

\* a * m for a natural number m
Hash_mul(a, m) == Hash_carry(Tup([j \in HashBytes |-> a[j] * m], 8), 1, 0)

RECURSIVE Byte_xor(_, _, _)
Byte_xor(a, b, n) ==
    IF n = 0 THEN 0 ELSE ((a + b) % 2) + 2 * Byte_xor(a \div 2, b \div 2, n - 1)

\* a ^ b
Hash_xor(a, b) == Tup([j \in HashBytes |-> Byte_xor(a[j], b[j], 8)], 8)

\* for (i = 0; i < self->cnt; i++) h = 31 * h + item_hash
RECURSIVE Vector_hash_from(_, _, _, _)
Vector_hash_from(h, self, i, acc) ==
    IF i >= Deref(h, self).cnt \/ acc = Hash_undefined THEN acc
    ELSE Vector_hash_from(h, self, i + 1,
             Hash_add(Hash_mul(acc, 31),
                      Hash_of(PyObject_Hash(
                          Vector_array_for(h, self, i).r[(i % WIDTH) + 1]))))

Vector_hash(h, self) == Vector_hash_from(h, self, 0, Hash_of(0))

\* the loop of Vector_richcompare from index i on
RECURSIVE Vector_richcompare_from(_, _, _, _)
Vector_richcompare_from(h, self, o, i) ==
    IF i >= Deref(h, self).cnt THEN 1
    ELSE IF Vector_array_for(h, self, i).r[(i % WIDTH) + 1]
            # Vector_array_for(h, o, i).r[(i % WIDTH) + 1] THEN 0
    ELSE Vector_richcompare_from(h, self, o, i + 1)

\* self == other
Vector_richcompare(h, self, other) ==
    IF self = other THEN 1
    ELSE IF Deref(h, other).kind # "Vector" THEN 0
    ELSE IF Deref(h, self).cnt # Deref(h, other).cnt THEN 0
    ELSE Vector_richcompare_from(h, self, other, 0)

\* the loop of Map_hash over the items from the i-th on: h += kh ^ vh;
\* no value when the iterator yields what it read through a wrong cast
RECURSIVE Map_hash_from(_, _, _)
Map_hash_from(items, i, acc) ==
    IF i > Len(items) \/ acc = Hash_undefined THEN acc
    ELSE IF items[i][1] = Undefined \/ items[i][2] = Undefined THEN Hash_undefined
    ELSE Map_hash_from(items, i + 1,
             Hash_add(acc, Hash_xor(Hash_of(PyObject_Hash(items[i][1])),
                                    Hash_of(PyObject_Hash(items[i][2])))))

Map_hash(h, self) == Map_hash_from(Map_items(h, self), 1, Hash_of(0))

\* the loop of Set_hash over the keys from the i-th on: h ^= kh
RECURSIVE Set_hash_from(_, _, _)
Set_hash_from(keys, i, acc) ==
    IF i > Len(keys) \/ acc = Hash_undefined THEN acc
    ELSE IF keys[i] = Undefined THEN Hash_undefined
    ELSE Set_hash_from(keys, i + 1, Hash_xor(acc, Hash_of(PyObject_Hash(keys[i]))))

Set_hash(h, self) ==
    With(Set_hash_from(Set_iter(h, self), 1, Hash_of(0)), LAMBDA x :
    IF x = Hash_minus(1) THEN Hash_minus(2) ELSE x)

\* the loop of Set_richcompare (Py_EQ) over the keys of self from the i-th on
RECURSIVE Set_richcompare_from(_, _, _, _)
Set_richcompare_from(h, o, keys, i) ==
    IF i > Len(keys) THEN 1
    ELSE With(IF keys[i] = Undefined THEN Undefined ELSE Set_contains(h, o, keys[i]),
              LAMBDA found :
              IF found = Undefined THEN Undefined
              ELSE IF found = 0 THEN 0
              ELSE Set_richcompare_from(h, o, keys, i + 1))

\* self == other
Set_richcompare(h, self, other) ==
    IF self = other THEN 1
    ELSE IF Deref(h, other).kind # "Set" THEN 0
    ELSE IF Deref(h, self).cnt # Deref(h, other).cnt THEN 0
    ELSE Set_richcompare_from(h, other, Set_iter(h, self), 1)

\* the loop of SortedVector_hash over the nodes from the i-th on:
\* hash = (hash ^ item_hash) * mult; mult += 82520 + 2 * self->cnt
RECURSIVE SortedVector_hash_from(_, _, _, _, _, _)
SortedVector_hash_from(h, self, nodes, i, hash, mult) ==
    IF i > Len(nodes) \/ hash = Hash_undefined THEN hash
    ELSE SortedVector_hash_from(h, self, nodes, i + 1,
             Hash_mul(Hash_xor(hash, Hash_of(PyObject_Hash(Deref(h, nodes[i]).value))),
                      mult),
             mult + 82520 + 2 * Deref(h, self).cnt)

\* 0x345678 = 3430008
SortedVector_hash(h, self) ==
    With(Hash_add(SortedVector_hash_from(
                      h, self, SortedVectorIterator_all(h, SortedVector_iter(h, self)),
                      1, Hash_of(3430008), 1000003),
                  Hash_of(97531)),
         LAMBDA hash : IF hash = Hash_minus(1) THEN Hash_minus(2) ELSE hash)

\* the loop of SortedVector_richcompare: the two iterators advance together,
\* and the loop ends when the first one is exhausted
RECURSIVE SortedVector_richcompare_from(_, _, _)
SortedVector_richcompare_from(h, iter1, iter2) ==
    With(SortedVectorIterator_next(h, iter1), LAMBDA item1 :
    IF item1.node = NULL THEN 1
    ELSE With(SortedVectorIterator_next(h, iter2), LAMBDA item2 :
         IF item2.node = NULL THEN 0
         ELSE IF Deref(h, item1.node).value # Deref(h, item2.node).value THEN 0
         ELSE SortedVector_richcompare_from(h, item1.stack, item2.stack)))

\* self == other
SortedVector_richcompare(h, self, other) ==
    IF Deref(h, other).kind # "SortedVector" THEN 0
    ELSE IF Deref(h, self).cnt # Deref(h, other).cnt THEN 0
    ELSE SortedVector_richcompare_from(h, SortedVector_iter(h, self),
                                       SortedVector_iter(h, other))

----------------------------------------------------------------------------
(* Module state set up by pds_exec, pds.c:9744-9805 *)

InitHeap ==
    << [kind |-> "NoneType"],
       [kind |-> "object"],
       [kind |-> "VectorNode", array |-> Tup([j \in 1..WIDTH |-> NULL], WIDTH),
        transient_id |-> NULL],
       [kind |-> "Vector", cnt |-> 0, shift |-> BITS, root |-> EMPTY_NODE,
        tail |-> <<>>, transient_id |-> NULL],
       [kind |-> "BitmapIndexedNode", bitmap |-> {}, array |-> <<>>,
        transient_id |-> NULL],
       [kind |-> "Map", cnt |-> 0, root |-> NULL, transient_id |-> NULL],
       [kind |-> "Set", cnt |-> 0, root |-> NULL, transient_id |-> NULL],
       [kind |-> "SortedVector", root |-> NULL, cnt |-> 0, key_fn |-> NULL,
        reverse |-> 0],
       [kind |-> "function"],
       [kind |-> "DoubleVectorNode", array |-> Tup([j \in 1..WIDTH |-> 0], WIDTH),
        valid_mask |-> {}, transient_id |-> NULL, ob_refcnt |-> 1],
       [kind |-> "DoubleVector", cnt |-> 0, shift |-> BITS, root |-> EMPTY_DOUBLE_NODE,
        tail |-> <<>>, transient_id |-> NULL] >>

----------------------------------------------------------------------------
(* Reference-counted reclamation: objects no longer reachable from the     *)
(* client's values are freed (the tp_dealloc functions); the live objects  *)
(* are renumbered in the order a traversal from the roots meets them. An   *)
(* edit token lives as long as a transient presents it as its id: a token  *)
(* that only nodes still carry can match no transient any more, it is      *)
(* freed with the rest and the nodes' field reads NULL.                    *)

Fields(rec) ==
    CASE rec.kind = "VectorNode" -> rec.array
      [] rec.kind = "Vector" -> <<rec.root, rec.transient_id>> \o rec.tail
      [] rec.kind = "TransientVector" -> <<rec.root, rec.id>> \o rec.tail
      [] rec.kind \in {"BitmapIndexedNode", "ArrayNode", "HashCollisionNode"} ->
            rec.array
      [] rec.kind \in {"Map", "Set"} -> <<rec.root, rec.transient_id>>
      [] rec.kind \in {"TransientMap", "TransientSet"} -> <<rec.root, rec.id>>
      [] rec.kind = "RBNode" -> <<rec.left, rec.right>>
      [] rec.kind = "SortedVector" -> <<rec.root, rec.key_fn>>
      [] rec.kind = "TransientSortedVector" -> <<rec.root, rec.key_fn, rec.id>>
      [] rec.kind = "DoubleVectorNode" -> rec.array
      [] rec.kind = "DoubleVector" -> <<rec.root, rec.transient_id>>
      [] rec.kind = "TransientDoubleVector" -> <<rec.root, rec.id>>
      [] OTHER -> <<>>

RefList(rec) == SelectSeq(Fields(rec), IsRef)

RECURSIVE Reach(_, _, _)
Reach(h, stack, seen) ==
    IF stack = <<>> THEN seen
    ELSE LET r == Head(stack) IN
         IF ~IsRef(r) \/ \E p \in 1..Len(seen) : seen[p] = r
         THEN Reach(h, Tail(stack), seen)
         ELSE Reach(h, RefList(Deref(h, r)) \o Tail(stack), Append(seen, r))

Rn(m, x) == IF IsRef(x) THEN m[0 - x] ELSE x
RnSeq(m, a) == Tup([j \in 1..Len(a) |-> Rn(m, a[j])], Len(a))

RemapRec(m, rec) ==
    CASE rec.kind = "VectorNode" ->
            [rec EXCEPT !.array = RnSeq(m, @), !.transient_id = Rn(m, @)]
      [] rec.kind = "Vector" ->
            [rec EXCEPT !.root = Rn(m, @), !.tail = RnSeq(m, @),
                        !.transient_id = Rn(m, @)]
      [] rec.kind = "TransientVector" ->
            [rec EXCEPT !.root = Rn(m, @), !.tail = RnSeq(m, @), !.id = Rn(m, @)]
      [] rec.kind \in {"BitmapIndexedNode", "ArrayNode", "HashCollisionNode"} ->
            [rec EXCEPT !.array = RnSeq(m, @), !.transient_id = Rn(m, @)]
      [] rec.kind \in {"Map", "Set"} ->
            [rec EXCEPT !.root = Rn(m, @), !.transient_id = Rn(m, @)]
      [] rec.kind \in {"TransientMap", "TransientSet"} ->
            [rec EXCEPT !.root = Rn(m, @), !.id = Rn(m, @)]
      [] rec.kind = "RBNode" ->
            [rec EXCEPT !.left = Rn(m, @), !.right = Rn(m, @), !.edit = Rn(m, @)]
      [] rec.kind = "SortedVector" ->
            [rec EXCEPT !.root = Rn(m, @), !.key_fn = Rn(m, @)]
      [] rec.kind = "TransientSortedVector" ->
            [rec EXCEPT !.root = Rn(m, @), !.key_fn = Rn(m, @), !.id = Rn(m, @)]
      [] rec.kind = "DoubleVectorNode" ->
            [rec EXCEPT !.array = RnSeq(m, @), !.transient_id = Rn(m, @)]
      [] rec.kind = "DoubleVector" ->
            [rec EXCEPT !.root = Rn(m, @), !.transient_id = Rn(m, @)]
      [] rec.kind = "TransientDoubleVector" ->
            [rec EXCEPT !.root = Rn(m, @), !.id = Rn(m, @)]
      [] OTHER -> rec

Globals == Tup([j \in 1..Len(InitHeap) |-> 0 - j], Len(InitHeap))

\* the new place of object o, NULL when it is freed
Place(seen, o) ==
    IF \E p \in 1..Len(seen) : seen[p] = 0 - o
    THEN 0 - (CHOOSE p \in 1..Len(seen) : seen[p] = 0 - o)
    ELSE NULL

Renumber(h, seen, m) ==
    [h |-> Tup([p \in 1..Len(seen) |-> RemapRec(m, Deref(h, seen[p]))], Len(seen)),
     m |-> m]

Survivors(h, seen) == Renumber(h, seen, [o \in 1..Len(h) |-> Place(seen, o)])

Compact(h, roots) == Survivors(h, Reach(h, roots, Globals))

----------------------------------------------------------------------------
(* What a client can observe of a persistent value *)

VectorObs(h, self) ==
    LET n == Deref(h, self).cnt IN
    [len |-> n,
     nth |-> Tup([j \in 1..n |-> Vector_nth_impl(h, self, j - 1, NULL).r], n),
     iter |-> Tup([j \in 1..n |-> VectorIterator_next(h, self, j - 1)], n)]

\* the keys the client uses, in a fixed order: keys 1, 2, ... fall into
\* different first-level slots; WIDTH + 1 shares the first-level slot of key 1,
\* WIDTH * WIDTH + 1 its whole hash, and None its first-level slot
KeySeq ==
    IF kind = "sets" THEN <<1, WIDTH * WIDTH + 1, Py_None>>
    ELSE IF mode = "chain" /\ BITS = SmallBITS
    THEN <<1, 2, WIDTH + 1, WIDTH * WIDTH + 1, Py_None>>
    ELSE Tup([j \in 1..(WIDTH \div 2 + 2) |-> j], WIDTH \div 2 + 2)
         \o <<WIDTH + 1, WIDTH * WIDTH + 1>>

MapObs(h, self) ==
    [len |-> Deref(h, self).cnt,
     get |-> Tup([p \in 1..Len(KeySeq) |-> Map_get(h, self, KeySeq[p], MISSING)],
                 Len(KeySeq)),
     contains |-> Tup([p \in 1..Len(KeySeq) |-> Map_contains(h, self, KeySeq[p])],
                      Len(KeySeq)),
     iter |-> Map_items(h, self)]

SetObs(h, self) ==
    [len |-> Deref(h, self).cnt,
     contains |-> Tup([p \in 1..Len(KeySeq) |-> Set_contains(h, self, KeySeq[p])],
                      Len(KeySeq)),
     iter |-> Set_iter(h, self)]

SortedObs(h, self) ==
    LET n == Deref(h, self).cnt
        nodes == SortedVectorIterator_all(h, SortedVector_iter(h, self))
    IN  [len |-> n,
         nth |-> Tup([j \in 1..n |->
                        LET x == SortedVector_nth(h, self, j - 1, NULL) IN
                        IF x.e = NoError THEN x.r ELSE Undefined], n),
         iter |-> Tup([j \in 1..Len(nodes) |-> Deref(h, nodes[j]).value], Len(nodes))]

DoubleVectorObs(h, self) ==
    LET n == Deref(h, self).cnt IN
    [len |-> n,
     nth |-> Tup([j \in 1..n |-> DoubleVector_nth(h, self, j - 1, NULL).r], n),
     iter |-> Tup([j \in 1..n |-> DoubleVector_nth_raw(h, self, j - 1)], n)]

Obs(h, self) ==
    CASE Deref(h, self).kind = "Vector" -> VectorObs(h, self)
      [] Deref(h, self).kind = "DoubleVector" -> DoubleVectorObs(h, self)
      [] Deref(h, self).kind = "SortedVector" -> SortedObs(h, self)
      [] Deref(h, self).kind = "Map" -> MapObs(h, self)
      [] Deref(h, self).kind = "Set" -> SetObs(h, self)
      [] OTHER -> <<>>

----------------------------------------------------------------------------
(* The client *)

\* frozen is 1 once persistent() has returned on the transient
NoTransient ==
    [ref |-> NULL, shadow |-> NULL, src |-> 0, n |-> 0, abs |-> <<>>, frozen |-> 0]

Entry(h, r, abs) == [ref |-> r, abs |-> abs, obs |-> Obs(h, r)]

\* the client gives up after a crash and after an allocation failure
Alive == err \notin {UndefinedBehaviour, MemoryError}
CanStep == Alive /\ (mode = "chain" \/ steps < MaxSteps)

\* every operation ends here: unreachable objects are freed
Settle(c, p, t, op, e) ==
    /\ heap' = c.h
    /\ pers' = Tup([j \in 1..Len(p) |-> [p[j] EXCEPT !.ref = Rn(c.m, @)]], Len(p))
    /\ tr' = [t EXCEPT !.ref = Rn(c.m, @), !.shadow = Rn(c.m, @)]
    /\ lastOp' = op
    /\ err' = e
    /\ steps' = IF mode = "tree" /\ op \notin {"transient", "persistent"}
                THEN steps + 1 ELSE steps
    /\ UNCHANGED <<BITS, kind, mode, ub>>

Finish(h, p, t, op, e) ==
    Settle(Compact(h, Tup([j \in 1..Len(p) |-> p[j].ref], Len(p))
                      \o <<t.ref, t.shadow>>), p, t, op, e)

\* the client keeps the result of a persistent operation on pers[s]
KeepEntry(entry) ==
    IF mode = "chain" THEN <<entry>>
    ELSE IF \E j \in 1..Len(pers) : pers[j] = entry THEN pers
    ELSE Append(pers, entry)

Keep(s, res, abs) ==
    IF res.e # NoError THEN pers ELSE KeepEntry(Entry(res.h, res.r, abs))

\* a client holding a transient works on the transient only
Persistent(op, s, res, abs) ==
    /\ tr.ref = NULL
    /\ Finish(res.h, Keep(s, res, abs), tr, op, res.e)

\* the client builds its first value with a factory function of the module
FirstValue(c, r, abs) ==
    /\ heap' = c.h
    /\ pers' = <<Entry(c.h, Rn(c.m, r), abs)>>

Factory(op, res, abs) ==
    /\ lastOp = "init"
    /\ FirstValue(Compact(res.h, <<res.r>>), res.r, abs)
    /\ lastOp' = op /\ err' = res.e
    /\ UNCHANGED <<BITS, kind, mode, tr, steps, ub>>

\* a transient operation, and the same operation on the persistent shadow
Mutation(op, res, abs, sres) ==
    Finish(sres.h, pers,
           [tr EXCEPT !.abs = IF res.e = NoError THEN abs ELSE @,
                      !.shadow = IF sres.e = NoError THEN sres.r ELSE @],
           op, res.e)

ConjVal(cnt) == IF mode = "tree" THEN MaxInit + 1 + steps ELSE cnt + 1
AssocVal(i) == IF mode = "tree" THEN MaxInit + 1 + steps ELSE MaxCount + 1 + i
Marks(abs) == Cardinality({j \in 1..Len(abs) : abs[j] > MaxCount})

AssocIdx(cnt, abs) ==
    IF mode = "tree"
    THEN {-1, 0, cnt, cnt + 1}
    ELSE {i \in 0..(cnt - 1) : abs[i + 1] <= MaxCount /\ Marks(abs) < MaxMarks}

\* what assoc means on the abstract sequence
AbsAssoc(abs, i0, val) ==
    LET i == IF i0 < 0 THEN Len(abs) + i0 ELSE i0 IN
    IF i = Len(abs) THEN Append(abs, val)
    ELSE IF i >= 0 /\ i < Len(abs) THEN [abs EXCEPT ![i + 1] = val]
    ELSE abs

AbsPop(abs) == IF abs = <<>> THEN abs ELSE SubSeq(abs, 1, Len(abs) - 1)

\* the longest vector a chain of operations grows
CountBound == IF BITS = SourceBITS THEN MaxSourceCount ELSE MaxCount

VecConj(s) ==
    /\ kind = "vec" /\ CanStep
    /\ mode = "chain" => Len(pers[s].abs) < CountBound
    /\ LET val == ConjVal(Len(pers[s].abs)) IN
       Persistent("conj", s, Vector_conj(heap, pers[s].ref, val),
                  Append(pers[s].abs, val))

VecAssoc(s, i) ==
    /\ kind = "vec" /\ CanStep
    /\ LET val == AssocVal(i) IN
       Persistent("assoc", s, Vector_assoc(heap, pers[s].ref, i, val),
                  AbsAssoc(pers[s].abs, i, val))

VecPop(s) ==
    /\ kind = "vec" /\ CanStep
    /\ Persistent("pop", s, Vector_pop(heap, pers[s].ref), AbsPop(pers[s].abs))

\* the client takes a transient of pers[s]
MakeTransient(s, res) ==
    /\ Alive /\ tr.n < MaxTransients
    /\ Finish(res.h, IF mode = "chain" THEN <<>> ELSE pers,
              [ref |-> res.r, src |-> IF mode = "chain" THEN 0 ELSE s,
               shadow |-> IF mode = "chain" \/ kind = "f64" THEN NULL ELSE pers[s].ref,
               n |-> tr.n + 1, abs |-> pers[s].abs, frozen |-> 0],
              "transient", NoError)

\* the client calls persistent() on its transient and keeps the result
Frozen(entry) == IF mode = "chain" THEN <<entry>> ELSE Append(pers, entry)

Freeze(res) ==
    /\ Alive /\ tr.ref # NULL
    /\ Finish(res.h,
              IF res.e # NoError THEN pers ELSE Frozen(Entry(res.h, res.r, tr.abs)),
              IF res.e # NoError THEN tr
              ELSE IF mode = "chain" THEN [NoTransient EXCEPT !.n = tr.n]
              ELSE [tr EXCEPT !.frozen = 1],
              "persistent", res.e)

\* the persistent operation applied to the shadow of the transient
Shadow(res, sres) ==
    IF tr.shadow = NULL \/ res.e = UseAfterFreeze THEN Raise(res.h, res.e) ELSE sres

VecTransient(s) ==
    /\ kind = "vec"
    /\ MakeTransient(s, Vector_transient(heap, pers[s].ref))

TVecConj ==
    /\ kind = "vec" /\ CanStep /\ tr.ref # NULL
    /\ mode = "chain" => Len(tr.abs) < CountBound
    /\ LET val == ConjVal(Len(tr.abs))
           res == TransientVector_conj_mut(heap, tr.ref, val)
       IN  Mutation("conj_mut", res, Append(tr.abs, val),
                    Shadow(res, Vector_conj(res.h, tr.shadow, val)))

TVecAssoc(i) ==
    /\ kind = "vec" /\ CanStep /\ tr.ref # NULL
    /\ LET val == AssocVal(i)
           res == TransientVector_assoc_mut(heap, tr.ref, i, val)
       IN  Mutation("assoc_mut", res, AbsAssoc(tr.abs, i, val),
                    Shadow(res, Vector_assoc(res.h, tr.shadow, i, val)))

TVecPop ==
    /\ kind = "vec" /\ CanStep /\ tr.ref # NULL
    /\ LET res == TransientVector_pop_mut(heap, tr.ref)
       IN  Mutation("pop_mut", res, AbsPop(tr.abs),
                    Shadow(res, Vector_pop(res.h, tr.shadow)))

\* conj_mut with an allocation that fails
TVecConjNoMem(fault) ==
    /\ kind = "vec" /\ CanStep /\ tr.ref # NULL
    /\ LET res == TransientVector_conj_mut_nomem(heap, tr.ref,
                                                 ConjVal(Len(tr.abs)), fault)
       IN  Mutation("conj_mut", res, tr.abs, Raise(res.h, res.e))

TVecPersistent ==
    /\ kind = "vec"
    /\ Freeze(TransientVector_persistent(heap, tr.ref))

InitSizes ==
    {n \in {WIDTH, WIDTH + 1, WIDTH * WIDTH + WIDTH, WIDTH * WIDTH + WIDTH + 1} :
        n <= MaxInit}

VecFactory(n) ==
    /\ kind = "vec"
    /\ Factory("vec", pds_vec(heap, Tup([j \in 1..n |-> j], n)),
               Tup([j \in 1..n |-> j], n))

NextVector ==
    \/ \E n \in InitSizes : VecFactory(n)
    \/ \E s \in 1..Len(pers) : VecConj(s)
    \/ \E s \in 1..Len(pers) : \E i \in AssocIdx(Len(pers[s].abs), pers[s].abs) :
          VecAssoc(s, i)
    \/ \E s \in 1..Len(pers) : VecPop(s)
    \/ \E s \in 1..Len(pers) : VecTransient(s)
    \/ TVecConj
    \/ \E i \in AssocIdx(Len(tr.abs), tr.abs) : TVecAssoc(i)
    \/ TVecPop
    \/ TVecPersistent

----------------------------------------------------------------------------
(* The client of DoubleVector: a vec_f64 and one transient of it *)

F64Sizes == {n \in {WIDTH * WIDTH + WIDTH, WIDTH * WIDTH + 2 * WIDTH} : n <= MaxInit}

F64Transient(s) ==
    /\ kind = "f64"
    /\ MakeTransient(s, DoubleVector_transient(heap, pers[s].ref))

TF64Conj ==
    /\ kind = "f64" /\ CanStep /\ tr.ref # NULL
    /\ LET val == ConjVal(Len(tr.abs))
           res == TransientDoubleVector_conj_mut(heap, tr.ref, val)
       IN  Mutation("conj_mut", res, Append(tr.abs, val), Raise(res.h, res.e))

TF64Persistent ==
    /\ kind = "f64"
    /\ Freeze(TransientDoubleVector_persistent(heap, tr.ref))

F64Conj(s) ==
    /\ kind = "f64" /\ CanStep
    /\ LET val == ConjVal(Len(pers[s].abs)) IN
       Persistent("conj", s, DoubleVector_conj(heap, pers[s].ref, val),
                  Append(pers[s].abs, val))

F64Factory(n) ==
    /\ kind = "f64"
    /\ Factory("vec_f64", pds_vec_f64(heap, Tup([j \in 1..n |-> j], n)),
               Tup([j \in 1..n |-> j], n))

NextF64 ==
    \/ \E n \in F64Sizes : F64Factory(n)
    \/ \E s \in 1..Len(pers) : F64Conj(s)
    \/ \E s \in 1..Len(pers) : F64Transient(s)
    \/ TF64Conj
    \/ TF64Persistent

----------------------------------------------------------------------------
(* The client of Map *)

\* the abstract map: abs[p] is the value of KeySeq[p], MISSING when absent
AbsEmpty == Tup([p \in 1..Len(KeySeq) |-> MISSING], Len(KeySeq))
AbsFirst(n, v) == Tup([p \in 1..Len(KeySeq) |-> IF p <= n THEN v ELSE MISSING],
                      Len(KeySeq))

OpKeys ==
    IF mode = "chain" THEN 1..Len(KeySeq)
    ELSE {1, WIDTH \div 2 + 2, WIDTH \div 2 + 3, WIDTH \div 2 + 4}
MapVals == IF mode = "chain" THEN {1} ELSE {2}
\* at the source's width the factory stops at the promotion threshold and the
\* entry that crosses it is added by assoc or assoc_mut
FactorySizes ==
    IF BITS = SourceBITS THEN {WIDTH \div 2 - 1, WIDTH \div 2}
    ELSE {WIDTH \div 2, WIDTH \div 2 + 1}

MapAssoc(s, p, v) ==
    /\ kind = "map" /\ CanStep
    /\ Persistent("assoc", s, Map_assoc(heap, pers[s].ref, KeySeq[p], v),
                  [pers[s].abs EXCEPT ![p] = v])

MapDissoc(s, p) ==
    /\ kind = "map" /\ CanStep
    /\ Persistent("dissoc", s, Map_dissoc(heap, pers[s].ref, KeySeq[p]),
                  [pers[s].abs EXCEPT ![p] = MISSING])

\* the right operand wins
AbsMerge(a, b) ==
    Tup([p \in 1..Len(KeySeq) |-> IF b[p] # MISSING THEN b[p] ELSE a[p]], Len(KeySeq))

MapMerge(s, o) ==
    /\ kind = "map" /\ CanStep
    /\ Persistent("merge", s, Map_or(heap, pers[s].ref, pers[o].ref),
                  AbsMerge(pers[s].abs, pers[o].abs))

MapTransient(s) ==
    /\ kind = "map"
    /\ MakeTransient(s, Map_transient(heap, pers[s].ref))

TMapAssoc(p, v) ==
    /\ kind = "map" /\ CanStep /\ tr.ref # NULL
    /\ LET res == TransientMap_assoc_mut_impl(heap, tr.ref, KeySeq[p], v) IN
       Mutation("assoc_mut", res, [tr.abs EXCEPT ![p] = v],
                Shadow(res, Map_assoc(res.h, tr.shadow, KeySeq[p], v)))

TMapDissoc(p) ==
    /\ kind = "map" /\ CanStep /\ tr.ref # NULL
    /\ LET res == TransientMap_dissoc_mut(heap, tr.ref, KeySeq[p]) IN
       Mutation("dissoc_mut", res, [tr.abs EXCEPT ![p] = MISSING],
                Shadow(res, Map_dissoc(res.h, tr.shadow, KeySeq[p])))

TMapPersistent ==
    /\ kind = "map"
    /\ Freeze(TransientMap_persistent(heap, tr.ref))

MapFactory(n) ==
    /\ kind = "map"
    /\ Factory("hash_map",
               pds_hash_map(heap, Tup([j \in 1..(2 * n) |->
                                IF j % 2 = 1 THEN KeySeq[(j + 1) \div 2] ELSE 1], 2 * n)),
               AbsFirst(n, 1))

NextMap ==
    \/ \E n \in FactorySizes : MapFactory(n)
    \/ \E s \in 1..Len(pers) : \E p \in OpKeys : \E v \in MapVals : MapAssoc(s, p, v)
    \/ \E s \in 1..Len(pers) : \E p \in OpKeys : MapDissoc(s, p)
    \/ \E s, o \in 1..Len(pers) : MapMerge(s, o)
    \/ \E s \in 1..Len(pers) : MapTransient(s)
    \/ \E p \in OpKeys : \E v \in MapVals : TMapAssoc(p, v)
    \/ \E p \in OpKeys : TMapDissoc(p)
    \/ TMapPersistent

----------------------------------------------------------------------------
(* The client of Set *)

\* the abstract set: abs[p] = 1 when KeySeq[p] is a member, else 0
NoKeys == Tup([p \in 1..Len(KeySeq) |-> 0], Len(KeySeq))
FirstKeys(n) == Tup([p \in 1..Len(KeySeq) |-> IF p <= n THEN 1 ELSE 0], Len(KeySeq))
Pointwise(a, b, f) == Tup([p \in 1..Len(KeySeq) |-> f[<<a[p], b[p]>>]], Len(KeySeq))
UnionOf == [x \in {0, 1} \X {0, 1} |-> IF x[1] = 1 \/ x[2] = 1 THEN 1 ELSE 0]
IntersectionOf == [x \in {0, 1} \X {0, 1} |-> IF x[1] = 1 /\ x[2] = 1 THEN 1 ELSE 0]
DifferenceOf == [x \in {0, 1} \X {0, 1} |-> IF x[1] = 1 /\ x[2] = 0 THEN 1 ELSE 0]
SymmetricOf == [x \in {0, 1} \X {0, 1} |-> IF x[1] # x[2] THEN 1 ELSE 0]

SetConj(s, p) ==
    /\ kind = "set" /\ CanStep
    /\ Persistent("conj", s, Set_conj(heap, pers[s].ref, KeySeq[p]),
                  [pers[s].abs EXCEPT ![p] = 1])

SetDisj(s, p) ==
    /\ kind = "set" /\ CanStep
    /\ Persistent("disj", s, Set_disj(heap, pers[s].ref, KeySeq[p]),
                  [pers[s].abs EXCEPT ![p] = 0])

SetOr(s, o) ==
    /\ kind = "set" /\ CanStep
    /\ Persistent("union", s, Set_or(heap, pers[s].ref, pers[o].ref),
                  Pointwise(pers[s].abs, pers[o].abs, UnionOf))

SetAnd(s, o) ==
    /\ kind = "set" /\ CanStep
    /\ Persistent("intersection", s, Set_and(heap, pers[s].ref, pers[o].ref),
                  Pointwise(pers[s].abs, pers[o].abs, IntersectionOf))

SetSub(s, o) ==
    /\ kind = "set" /\ CanStep
    /\ Persistent("difference", s, Set_sub(heap, pers[s].ref, pers[o].ref),
                  Pointwise(pers[s].abs, pers[o].abs, DifferenceOf))

SetXor(s, o) ==
    /\ kind = "set" /\ CanStep
    /\ Persistent("symmetric_difference", s,
                  Set_xor(heap, pers[s].ref, pers[o].ref),
                  Pointwise(pers[s].abs, pers[o].abs, SymmetricOf))

SetTransient(s) ==
    /\ kind = "set"
    /\ MakeTransient(s, Set_transient(heap, pers[s].ref))

TSetConj(p) ==
    /\ kind = "set" /\ CanStep /\ tr.ref # NULL
    /\ LET res == TransientSet_conj_mut(heap, tr.ref, KeySeq[p]) IN
       Mutation("conj_mut", res, [tr.abs EXCEPT ![p] = 1],
                Shadow(res, Set_conj(res.h, tr.shadow, KeySeq[p])))

TSetDisj(p) ==
    /\ kind = "set" /\ CanStep /\ tr.ref # NULL
    /\ LET res == TransientSet_disj_mut(heap, tr.ref, KeySeq[p]) IN
       Mutation("disj_mut", res, [tr.abs EXCEPT ![p] = 0],
                Shadow(res, Set_disj(res.h, tr.shadow, KeySeq[p])))

TSetPersistent ==
    /\ kind = "set"
    /\ Freeze(TransientSet_persistent(heap, tr.ref))

SetFactory(n) ==
    /\ kind = "set"
    /\ Factory("set", pds_set(heap, SubSeq(KeySeq, 1, n)), FirstKeys(n))

NextSet ==
    \/ \E n \in FactorySizes : SetFactory(n)
    \/ \E s \in 1..Len(pers) : \E p \in OpKeys : SetConj(s, p)
    \/ \E s \in 1..Len(pers) : \E p \in OpKeys : SetDisj(s, p)
    \/ \E s, o \in 1..Len(pers) : SetOr(s, o)
    \/ \E s, o \in 1..Len(pers) : SetAnd(s, o)
    \/ \E s, o \in 1..Len(pers) : SetSub(s, o)
    \/ \E s, o \in 1..Len(pers) : SetXor(s, o)
    \/ \E s \in 1..Len(pers) : SetTransient(s)
    \/ \E p \in OpKeys : TSetConj(p)
    \/ \E p \in OpKeys : TSetDisj(p)
    \/ TSetPersistent

----------------------------------------------------------------------------
(* The client of the set algebra: two sets a = pers[1] and b = pers[2]     *)
(* grown by conj and disj, and the four results of combining them          *)

\* conj or disj on operand j; earlier results are dropped
Operand(j, op, res, abs) ==
    /\ kind = "sets" /\ Alive /\ res.e = NoError
    /\ Finish(res.h, [SubSeq(pers, 1, 2) EXCEPT ![j] = Entry(res.h, res.r, abs)],
              tr, op, NoError)

PairConj(j, p) ==
    Operand(j, "conj", Set_conj(heap, pers[j].ref, KeySeq[p]),
            [pers[j].abs EXCEPT ![p] = 1])

PairDisj(j, p) ==
    Operand(j, "disj", Set_disj(heap, pers[j].ref, KeySeq[p]),
            [pers[j].abs EXCEPT ![p] = 0])

\* a | b, a & b, a - b and a ^ b, kept as pers[3..6]
PairAlgebra ==
    /\ kind = "sets" /\ Alive /\ lastOp # "algebra"
    /\ LET a == pers[1]
           b == pers[2]
           u == Set_or(heap, a.ref, b.ref)
           i == Set_and(u.h, a.ref, b.ref)
           d == Set_sub(i.h, a.ref, b.ref)
           x == Set_xor(d.h, a.ref, b.ref)
       IN  IF u.e # NoError \/ i.e # NoError \/ d.e # NoError \/ x.e # NoError
           THEN Finish(heap, SubSeq(pers, 1, 2), tr, "algebra", UndefinedBehaviour)
           ELSE Finish(x.h, <<a, b,
                              Entry(x.h, u.r, Pointwise(a.abs, b.abs, UnionOf)),
                              Entry(x.h, i.r, Pointwise(a.abs, b.abs, IntersectionOf)),
                              Entry(x.h, d.r, Pointwise(a.abs, b.abs, DifferenceOf)),
                              Entry(x.h, x.r, Pointwise(a.abs, b.abs, SymmetricOf))>>,
                       tr, "algebra", NoError)

NextSets ==
    \/ \E j \in 1..2 : \E p \in 1..Len(KeySeq) : PairConj(j, p)
    \/ \E j \in 1..2 : \E p \in 1..Len(KeySeq) : PairDisj(j, p)
    \/ PairAlgebra

----------------------------------------------------------------------------
(* The client of SortedVector *)

SortedVals == IF mode = "chain" THEN 1..4 ELSE {2, 3, 5}

SortedConj(s, v) ==
    /\ kind = "sorted" /\ CanStep
    /\ mode = "chain" => Deref(heap, pers[s].ref).cnt < MaxSortedCount
    /\ Persistent("conj", s, SortedVector_conj(heap, pers[s].ref, v), <<>>)

SortedDisj(s, v) ==
    /\ kind = "sorted" /\ CanStep
    /\ Persistent("disj", s, SortedVector_disj(heap, pers[s].ref, v), <<>>)

SortedTransient(s) ==
    /\ kind = "sorted"
    /\ MakeTransient(s, SortedVector_transient(heap, pers[s].ref))

TSortedConj(v) ==
    /\ kind = "sorted" /\ CanStep /\ tr.ref # NULL
    /\ LET res == TransientSortedVector_conj_mut(heap, tr.ref, v) IN
       Mutation("conj_mut", res, <<>>,
                Shadow(res, SortedVector_conj(res.h, tr.shadow, v)))

TSortedDisj(v) ==
    /\ kind = "sorted" /\ CanStep /\ tr.ref # NULL
    /\ LET res == TransientSortedVector_disj_mut(heap, tr.ref, v) IN
       Mutation("disj_mut", res, <<>>,
                Shadow(res, SortedVector_disj(res.h, tr.shadow, v)))

TSortedPersistent ==
    /\ kind = "sorted"
    /\ Freeze(TransientSortedVector_persistent(heap, tr.ref))

SortedInputs ==
    IF mode = "chain" THEN {<<>>} ELSE {<<1, 2, 3, 4>>, <<4, 2, 3>>, <<2, 2, 2, 1>>}

SortedFactory(iterable, key_fn, reverse) ==
    /\ kind = "sorted"
    /\ Factory("sorted_vec", pds_sorted_vec(heap, iterable, key_fn, reverse), <<>>)

\* conj and disj only
NextSortedVector ==
    \/ \E iterable \in SortedInputs : \E key_fn \in {Py_None, KEY_FN} :
          \E reverse \in {0, 1} : SortedFactory(iterable, key_fn, reverse)
    \/ \E s \in 1..Len(pers) : \E v \in SortedVals : SortedConj(s, v)
    \/ \E s \in 1..Len(pers) : \E v \in SortedVals : SortedDisj(s, v)

NextSorted ==
    \/ NextSortedVector
    \/ \E s \in 1..Len(pers) : SortedTransient(s)
    \/ \E v \in SortedVals : TSortedConj(v)
    \/ \E v \in SortedVals : TSortedDisj(v)
    \/ TSortedPersistent

Start(k, md, empty, abs) ==
    /\ kind = k /\ mode = md
    /\ heap = InitHeap
    /\ pers = <<Entry(InitHeap, empty, abs)>>
    /\ tr = NoTransient /\ lastOp = "init" /\ err = NoError /\ steps = 0

InitVectorTree ==
    /\ BITS \in {SmallBITS, SourceBITS} /\ ub = Undefined
    /\ Start("vec", "tree", EMPTY_VECTOR, <<>>)

InitVectorChain ==
    /\ BITS = SmallBITS /\ ub = Undefined
    /\ Start("vec", "chain", EMPTY_VECTOR, <<>>)

SpecVector == InitVectorChain /\ [][NextVector]_vars

\* the client that grows one vector element by element, at both widths
InitConj ==
    /\ BITS \in {SmallBITS, SourceBITS} /\ ub = Undefined
    /\ Start("vec", "chain", EMPTY_VECTOR, <<>>)

NextConj ==
    \/ \E s \in 1..Len(pers) : VecConj(s)
    \/ \E s \in 1..Len(pers) : VecTransient(s)
    \/ TVecConj
    \/ TVecPop
    \/ TVecPersistent

SpecConj == InitConj /\ [][NextConj]_vars

\* the client that grows one vector by conj alone, at the width of the
\* source, until the root of the trie has overflowed
VecGrow(s) ==
    /\ kind = "vec" /\ Alive /\ Len(pers[s].abs) < MaxGrow
    /\ LET val == ConjVal(Len(pers[s].abs)) IN
       Persistent("conj", s, Vector_conj(heap, pers[s].ref, val),
                  Append(pers[s].abs, val))

InitGrow ==
    /\ BITS = SourceBITS /\ ub = Undefined
    /\ Start("vec", "chain", EMPTY_VECTOR, <<>>)

NextGrow == \E s \in 1..Len(pers) : VecGrow(s)

SpecGrow == InitGrow /\ [][NextGrow]_vars

\* the client of Vector on a machine whose allocations may fail
Faults == 1..3
NextFaults == NextVector \/ \E fault \in Faults : TVecConjNoMem(fault)
SpecFaults == InitVectorTree /\ [][NextFaults]_vars

\* what undefined behaviour can do: crash, or yield "absent", or yield None
UBOutcomes == {Undefined, MISSING, Py_None}

InitMapTree ==
    /\ BITS = SmallBITS /\ ub = Undefined
    /\ Start("map", "tree", EMPTY_MAP, AbsEmpty)

\* the client of Map at the width of the source
InitMapSource ==
    /\ BITS = SourceBITS /\ ub = Undefined
    /\ Start("map", "tree", EMPTY_MAP, AbsEmpty)

\* the operations on one map at the source's width; merge runs at the scaled
\* width
NextMapSource ==
    \/ \E n \in FactorySizes : MapFactory(n)
    \/ \E s \in 1..Len(pers) : \E p \in OpKeys : \E v \in MapVals : MapAssoc(s, p, v)
    \/ \E s \in 1..Len(pers) : \E p \in OpKeys : MapDissoc(s, p)
    \/ \E s \in 1..Len(pers) : MapTransient(s)
    \/ \E p \in OpKeys : \E v \in MapVals : TMapAssoc(p, v)
    \/ \E p \in OpKeys : TMapDissoc(p)
    \/ TMapPersistent

SpecMapSource == InitMapSource /\ [][NextMapSource]_vars

\* one map at the source's width holding a run of keys, every key in a
\* first-level slot of its own: it shrinks at both ends and grows at the upper;
\* a transient of it shrinks only
SlotKeys == 1..(WIDTH \div 2 + 2)
Ends(abs) ==
    {p \in SlotKeys : /\ abs[p] # MISSING
                      /\ \/ \A q \in SlotKeys : q < p => abs[q] = MISSING
                         \/ \A q \in SlotKeys : q > p => abs[q] = MISSING}
Beyond(abs) ==
    {p \in SlotKeys : /\ abs[p] = MISSING
                      /\ p - 1 \in SlotKeys /\ abs[p - 1] # MISSING}

MapFill(s) == \E p \in Beyond(pers[s].abs) : MapAssoc(s, p, 1)
MapShrink(s) == \E p \in Ends(pers[s].abs) : MapDissoc(s, p)
TMapShrink == tr.ref # NULL /\ \E p \in Ends(tr.abs) : TMapDissoc(p)

InitShrink ==
    /\ BITS = SourceBITS /\ ub = Undefined
    /\ Start("map", "chain", EMPTY_MAP, AbsEmpty)

NextShrink ==
    \/ \E n \in FactorySizes : MapFactory(n)
    \/ \E s \in 1..Len(pers) : MapFill(s)
    \/ \E s \in 1..Len(pers) : MapShrink(s)
    \/ \E s \in 1..Len(pers) : MapTransient(s)
    \/ TMapShrink
    \/ TMapPersistent

SpecShrink == InitShrink /\ [][NextShrink]_vars

InitMapChain ==
    /\ BITS = SmallBITS /\ ub \in UBOutcomes
    /\ Start("map", "chain", EMPTY_MAP, AbsEmpty)

SpecMap == InitMapChain /\ [][NextMap]_vars

\* what a read of freed memory can do: fault, or find the old contents
UseAfterFree == {Undefined, Stale}

InitF64Tree ==
    /\ BITS = SmallBITS /\ ub \in UseAfterFree
    /\ Start("f64", "tree", EMPTY_DOUBLE_VECTOR, <<>>)

SpecF64 == InitF64Tree /\ [][NextF64]_vars
SpecMapTree == InitMapTree /\ [][NextMap]_vars

InitSetTree ==
    /\ BITS = SmallBITS /\ ub = Undefined
    /\ Start("set", "tree", EMPTY_SET, NoKeys)

InitSets ==
    /\ BITS = SmallBITS /\ ub \in UBOutcomes
    /\ kind = "sets" /\ mode = "chain" /\ heap = InitHeap
    /\ pers = <<Entry(InitHeap, EMPTY_SET, NoKeys), Entry(InitHeap, EMPTY_SET, NoKeys)>>
    /\ tr = NoTransient /\ lastOp = "init" /\ err = NoError /\ steps = 0

InitSortedTree ==
    /\ BITS = SmallBITS /\ ub = Undefined
    /\ Start("sorted", "tree", EMPTY_SORTED_VECTOR, <<>>)

InitSortedChain ==
    /\ BITS = SmallBITS /\ ub = Undefined
    /\ Start("sorted", "chain", EMPTY_SORTED_VECTOR, <<>>)

SpecSortedTree == InitSortedTree /\ [][NextSorted]_vars
SpecSorted == InitSortedChain /\ [][NextSortedVector]_vars

SpecSetTree == InitSetTree /\ [][NextSet]_vars
SpecSets == InitSets /\ [][NextSets]_vars

\* every kind of value, each with the transients taken of it
Init == InitVectorTree \/ InitMapTree \/ InitSetTree \/ InitSortedTree \/ InitF64Tree
Next == NextVector \/ NextMap \/ NextSet \/ NextSorted \/ NextF64
Spec == Init /\ [][Next]_vars

----------------------------------------------------------------------------
(* Properties *)

Unchanged == \A j \in 1..Len(pers) : Obs(heap, pers[j].ref) = pers[j].obs

MutatingOps == {"conj_mut", "assoc_mut", "pop_mut", "dissoc_mut", "disj_mut"}

\* C1: every Vector, Map, Set and SortedVector the client holds has the
\* length, the element at every index or key and the iteration sequence it
\* had when it was made, whatever persistent operations came later
C1_PersistentUnchanged ==
    kind \in {"vec", "map", "set", "sorted"} => Unchanged

C1_Witness ==
    /\ kind = "map" /\ lastOp = "merge" /\ err = NoError
    /\ steps = MaxSteps /\ Len(pers) > MaxSteps

\* C2: after a mutation of a transient, every persistent value, the source
\* of the transient among them, has its length, lookups and iteration unchanged
C2_TransientIsolation == lastOp \in MutatingOps => Unchanged

\* C3: a mutation of a transient on which persistent() has returned fails
\* with UseAfterFreeze
C3_UseAfterFreeze ==
    (tr.frozen = 1 /\ lastOp \in MutatingOps) => err = UseAfterFreeze

C3_Witness ==
    /\ kind = "f64" /\ tr.frozen = 1 /\ lastOp = "conj_mut"
    /\ Len(tr.abs) > Len(pers[tr.src].abs)

\* C4: the value persistent() returns for a transient equals the value the
\* same operations, applied as persistent operations to the source, produce
C4_TransientMatchesPersistent ==
    (lastOp = "persistent" /\ err = NoError /\ tr.shadow # NULL) =>
        Obs(heap, pers[Len(pers)].ref) = Obs(heap, tr.shadow)

\* C5: get(i) of a Vector is the element most recently placed at position i,
\* for every i in [0, count)
C5_VectorGet ==
    kind = "vec" => \A j \in 1..Len(pers) :
        /\ pers[j].obs.len = Len(pers[j].abs)
        /\ \A i \in 1..pers[j].obs.len : pers[j].obs.nth[i] = pers[j].abs[i]

C5_Witness ==
    /\ kind = "vec" /\ lastOp = "persistent" /\ err = NoError
    /\ Len(pers[1].abs) > WIDTH * WIDTH + WIDTH /\ Marks(pers[1].abs) > 0

\* C6: get(k) of a Map is the value last associated with k, and a key that
\* was dissoc'ed or never inserted is not contained
C6_MapLookup ==
    kind = "map" => \A j \in 1..Len(pers) : \A p \in 1..Len(KeySeq) :
        /\ pers[j].obs.get[p] = pers[j].abs[p]
        /\ pers[j].abs[p] = MISSING => pers[j].obs.contains[p] = 0

In(j, p) == pers[j].obs.contains[p] = 1
Computed == kind = "sets" /\ lastOp = "algebra" /\ err = NoError

\* C7: with a, b and their union, intersection, difference and symmetric
\* difference in pers[1..6], membership in each result is the set-theoretic one
C7_SetAlgebra ==
    Computed => \A p \in 1..Len(KeySeq) :
        /\ In(3, p) <=> (In(1, p) \/ In(2, p))
        /\ In(4, p) <=> (In(1, p) /\ In(2, p))
        /\ In(5, p) <=> (In(1, p) /\ ~In(2, p))
        /\ In(6, p) <=> (In(1, p) # In(2, p))

\* C8: |a + b| = |a| + |b| - |a & b|, and the count of each result is the
\* number of elements it yields
C8_SetCounts ==
    Computed =>
        /\ pers[3].obs.len = pers[1].obs.len + pers[2].obs.len - pers[4].obs.len
        /\ \A j \in 3..6 : pers[j].obs.len = Len(pers[j].obs.iter)

RECURSIVE RBNode_count(_, _)
RBNode_count(h, node) ==
    IF node = NULL THEN 0
    ELSE 1 + RBNode_count(h, Left(h, node)) + RBNode_count(h, Right(h, node))

RECURSIVE SizesOK(_, _)
SizesOK(h, node) ==
    \/ node = NULL
    \/ /\ Deref(h, node).size = RBNode_count(h, node)
       /\ SizesOK(h, Left(h, node)) /\ SizesOK(h, Right(h, node))

KeysOf(h, self, a) ==
    Tup([j \in 1..Len(a) |-> SortedVector_get_sort_key(h, self, a[j])], Len(a))
Monotone(a, reverse) ==
    \A j \in 1..(Len(a) - 1) :
        IF reverse # 0 THEN a[j] >= a[j + 1] ELSE a[j] <= a[j + 1]

\* C9: iteration of a SortedVector yields count values, their sort keys
\* non-decreasing, or non-increasing when reverse is set
C9_SortedIteration ==
    kind = "sorted" => \A j \in 1..Len(pers) :
        /\ Monotone(KeysOf(heap, pers[j].ref, pers[j].obs.iter),
                    Deref(heap, pers[j].ref).reverse)
        /\ Len(pers[j].obs.iter) = pers[j].obs.len

\* C10: nth(i) of a SortedVector is the i-th value of its iteration, every
\* size annotation is the number of nodes below it and the root's is count
C10_SortedNth ==
    kind = "sorted" => \A j \in 1..Len(pers) :
        /\ pers[j].obs.nth = pers[j].obs.iter
        /\ SizesOK(heap, Deref(heap, pers[j].ref).root)
        /\ RBNode_size(heap, Deref(heap, pers[j].ref).root) = pers[j].obs.len

RemoveAt(a, p) == SubSeq(a, 1, p - 1) \o SubSeq(a, p + 1, Len(a))
Occurs(a, v) == \E p \in 1..Len(a) : a[p] = v

\* C11: disj(v) of a SortedVector holding at least one entry equal to v
\* returns a vector of count - 1 elements whose iteration is the original one
\* with exactly one occurrence of v removed, entries of the same sort key and
\* another value included
C11_DisjRemovesOne ==
    [][\A v \in SortedVals :
         (SortedDisj(1, v) /\ mode = "chain" /\ Occurs(pers[1].obs.iter, v)) =>
             /\ err' = NoError
             /\ pers'[1].obs.len = pers[1].obs.len - 1
             /\ \E p \in 1..Len(pers[1].obs.iter) :
                   /\ pers[1].obs.iter[p] = v
                   /\ pers'[1].obs.iter = RemoveAt(pers[1].obs.iter, p)]_vars

\* the values reachable from the root of a SortedVector or of its transient
Elements(h, self) ==
    With(SortedVectorIterator_all(h, SortedVector_iter(h, self)), LAMBDA nodes :
    Tup([j \in 1..Len(nodes) |-> Deref(h, nodes[j]).value], Len(nodes)))

\* C12: when no entry equals v, disj(v) returns the SortedVector itself, and
\* disj_mut(v) leaves the transient's sequence of elements and its count as
\* they were, the count being the number of elements reachable from the root
C12_DisjMissing ==
    [][\A v \in SortedVals :
         /\ \A s \in 1..Len(pers) :
               (SortedDisj(s, v) /\ mode = "tree" /\ ~Occurs(pers[s].obs.iter, v)) =>
                   (err' = NoError /\ pers' = pers)
         /\ (TSortedDisj(v) /\ tr.frozen = 0
                /\ ~Occurs(Elements(heap, tr.ref), v)) =>
               /\ err' = NoError
               /\ Elements(heap', tr'.ref) = Elements(heap, tr.ref)
               /\ Deref(heap', tr'.ref).cnt = Deref(heap, tr.ref).cnt
               /\ Deref(heap', tr'.ref).cnt = Len(Elements(heap', tr'.ref))]_vars

\* positions of the iteration of self whose sort key compares as c to v's
KeyPositions(h, self, a, v, c) ==
    {p \in 1..Len(a) :
        SortedVector_compare_keys(SortedVector_get_sort_key(h, self, v),
                                  SortedVector_get_sort_key(h, self, a[p]),
                                  Deref(h, self).reverse) = c}

Leftmost(ps) == IF ps = {} THEN -1 ELSE (CHOOSE p \in ps : \A q \in ps : p <= q) - 1

Probes == 0..5

\* C13: rank(v) is the number of entries whose sort key precedes v's in the
\* vector's order; index_of(v) is the leftmost index of an entry with v's key,
\* which then is rank(v), or -1 when no entry has that key
C13_RankIndexOf ==
    kind = "sorted" => \A j \in 1..Len(pers) : \A v \in Probes :
        LET self == pers[j].ref
            a == pers[j].obs.iter
        IN  /\ SortedVector_rank(heap, self, v)
                  = Cardinality(KeyPositions(heap, self, a, v, 1))
            /\ SortedVector_index_of(heap, self, v)
                  = Leftmost(KeyPositions(heap, self, a, v, 0))
            /\ SortedVector_index_of(heap, self, v) >= 0 =>
                  SortedVector_index_of(heap, self, v) = SortedVector_rank(heap, self, v)

\* 1..4 inserted in some order and 2 once more: rank(2) and index_of(2) are 1
C13_Witness ==
    /\ kind = "sorted" /\ lastOp = "conj" /\ pers[1].obs.iter = <<1, 2, 2, 3, 4>>
    /\ Deref(heap, pers[1].ref).key_fn = NULL
    /\ SortedVector_rank(heap, pers[1].ref, 2) = 1
    /\ SortedVector_index_of(heap, pers[1].ref, 2) = 1

\* what a client can see of a TransientVector: count, shift, the tail and the
\* elements of the trie
TransientView(h, self) ==
    LET t == Deref(h, self)
        n == TransientVector_tail_off(t)
    IN  [cnt |-> t.cnt, shift |-> t.shift, tail |-> t.tail,
         trie |-> Tup([i \in 1..n |->
                         Deref(h, Vector_descend(h, t.root, t.shift, i - 1))
                             .array[((i - 1) % WIDTH) + 1]], n)]

\* C14: a mutating operation of a transient that fails (allocation failure,
\* index out of range, use after persistent()) leaves count, shift, tail and
\* every element of the transient as they were before the call
C14_FailedMutation ==
    [][(/\ kind = "vec" /\ tr.ref # NULL /\ lastOp' \in MutatingOps
        /\ err' \in {MemoryError, IndexError, UseAfterFreeze}) =>
           TransientView(heap', tr'.ref) = TransientView(heap, tr.ref)]_vars

\* the indices tried on a collection of n elements
IndexProbes(n) == (0 - n - 2)..(n + 2)

Fails(res) == res.e = IndexError /\ res.r = NULL

\* nth, self[i] and assoc of pers[j] at an index for which Bad(i, n) holds for
\* reading and BadAssoc(i, n) for assoc fail with IndexError, return nothing
\* and allocate nothing
OutOfRangeFails(j, Bad(_, _), BadAssoc(_, _)) ==
    LET self == pers[j].ref
        n == pers[j].obs.len
    IN  \A i \in IndexProbes(n) :
        /\ (kind = "vec" /\ Bad(i, n)) =>
              /\ Fails(Vector_nth_impl(heap, self, i, NULL))
              /\ Fails(Vector_getitem(heap, self, i))
        /\ (kind = "vec" /\ BadAssoc(i, n)) =>
              /\ Fails(Vector_assoc(heap, self, i, Py_None))
              /\ Vector_assoc(heap, self, i, Py_None).h = heap
        /\ (kind = "sorted" /\ Bad(i, n)) =>
              /\ Fails(SortedVector_nth(heap, self, i, NULL))
              /\ Fails(SortedVector_getitem(heap, self, i))

\* C15 as stated: an indexed get of a Vector or SortedVector at any index
\* outside [0, count), and assoc of a Vector at any index outside [0, count],
\* fails with IndexError and returns or produces nothing
C15_OutOfRange ==
    \A j \in 1..Len(pers) :
        OutOfRangeFails(j, LAMBDA i, n : i < 0 \/ i >= n, LAMBDA i, n : i < 0 \/ i > n)

\* C15 amended: the same for every index outside [-count, count), for assoc
\* outside [-count, count]; an assoc that failed leaves the client's values
\* as they were
C15_OutOfRangeWrapped ==
    /\ \A j \in 1..Len(pers) :
          OutOfRangeFails(j, LAMBDA i, n : i < 0 - n \/ i >= n,
                             LAMBDA i, n : i < 0 - n \/ i > n)
    /\ (kind = "vec" /\ lastOp = "assoc" /\ err = IndexError) => Unchanged

\* an assoc at count + 1 has failed on a vector with a trie, whose nth(count)
\* and nth(-count - 1) fail while nth(-1) is its last element
C15_Witness ==
    /\ kind = "vec" /\ lastOp = "assoc" /\ err = IndexError /\ Len(pers) = 1
    /\ pers[1].obs.len > WIDTH
    /\ Fails(Vector_nth_impl(heap, pers[1].ref, pers[1].obs.len, NULL))
    /\ Fails(Vector_getitem(heap, pers[1].ref, 0 - pers[1].obs.len - 1))
    /\ Vector_nth_impl(heap, pers[1].ref, -1, NULL).r = pers[1].obs.nth[pers[1].obs.len]

\* the canonical empty instance of the type of self; a SortedVector with a key
\* function or reverse order has none
CanonicalEmpty(h, self) ==
    CASE Deref(h, self).kind = "Vector" -> {EMPTY_VECTOR}
      [] Deref(h, self).kind = "Map" -> {EMPTY_MAP}
      [] Deref(h, self).kind = "Set" -> {EMPTY_SET}
      [] Deref(h, self).kind = "DoubleVector" -> {EMPTY_DOUBLE_VECTOR}
      [] Deref(h, self).kind = "SortedVector" ->
            IF Deref(h, self).key_fn = NULL /\ Deref(h, self).reverse = 0
            THEN {EMPTY_SORTED_VECTOR} ELSE {self}

\* C16: every empty collection a factory or an operation returns is the
\* canonical empty instance of its type
C16_CanonicalEmpty ==
    \A j \in 1..Len(pers) :
        Deref(heap, pers[j].ref).cnt = 0 => pers[j].ref \in CanonicalEmpty(heap, pers[j].ref)

Range(a) == {a[i] : i \in 1..Len(a)}

\* m and d are equal maps: == holds, the counts agree and the entries are the same
SameMap(h, d, m) ==
    /\ Map_richcompare(h, d, m) = 1
    /\ Deref(h, d).cnt = Deref(h, m).cnt
    /\ Range(Map_items(h, d)) = Range(Map_items(h, m))

\* C17: for a key k that a map m does not hold, dissoc(assoc(m, k, v), k) equals m
C17_AssocDissoc ==
    kind = "map" => \A j \in 1..Len(pers) : \A p \in 1..Len(KeySeq) :
        pers[j].abs[p] = MISSING =>
            With(Map_assoc(heap, pers[j].ref, KeySeq[p], 1), LAMBDA a :
            With(Map_dissoc(a.h, a.r, KeySeq[p]), LAMBDA d :
                /\ a.e = NoError /\ d.e = NoError
                /\ SameMap(d.h, d.r, pers[j].ref)))

\* the map pers[j] holds exactly the keys and values of its abstract value,
\* which for the result of merge(a, b) is a overridden by b
HoldsAbs(j) ==
    /\ pers[j].obs.get = pers[j].abs
    /\ \A p \in 1..Len(KeySeq) :
          pers[j].obs.contains[p] = 1 <=> pers[j].abs[p] # MISSING
    /\ pers[j].obs.len = Cardinality({p \in 1..Len(KeySeq) : pers[j].abs[p] # MISSING})
    /\ Len(pers[j].obs.iter) = pers[j].obs.len

\* C18: merge(a, b) succeeds, its result holds exactly the keys of a and of b
\* with b's value for a key of both, and a and b are as they were
C18_Merge ==
    (kind = "map" /\ lastOp = "merge") =>
        /\ err = NoError
        /\ \A j \in 1..Len(pers) : HoldsAbs(j)
        /\ Unchanged

\* hash(a) and a == b for the values the client holds
Hash(h, self) ==
    CASE Deref(h, self).kind = "Vector" -> Vector_hash(h, self)
      [] Deref(h, self).kind = "SortedVector" -> SortedVector_hash(h, self)
      [] Deref(h, self).kind = "Map" -> Map_hash(h, self)
      [] Deref(h, self).kind = "Set" -> Set_hash(h, self)
      [] OTHER -> Hash_undefined

Equal(h, self, other) ==
    CASE Deref(h, self).kind = "Vector" -> Vector_richcompare(h, self, other)
      [] Deref(h, self).kind = "SortedVector" -> SortedVector_richcompare(h, self, other)
      [] Deref(h, self).kind = "Map" -> Map_richcompare(h, self, other)
      [] Deref(h, self).kind = "Set" -> Set_richcompare(h, self, other)
      [] OTHER -> 0

\* C19: two values of the same structure type that compare equal have the
\* same hash, whatever operations built them and whatever the shape of
\* their tries and trees
C19_EqualHash ==
    \A i, j \in 1..Len(pers) :
        Equal(heap, pers[i].ref, pers[j].ref) = 1 =>
            /\ Hash(heap, pers[i].ref) # Hash_undefined
            /\ Hash(heap, pers[i].ref) = Hash(heap, pers[j].ref)

\* the vector grown from the empty vector by n calls of conj, and by nothing else
Grown(n) ==
    /\ kind = "vec" /\ mode = "chain" /\ tr.n = 0 /\ Len(pers) = 1
    /\ Len(pers[1].abs) = n

TailLen(j) == Len(Deref(heap, pers[j].ref).tail)
Leaves(j) ==
    Vector_leaves(heap, Deref(heap, pers[j].ref).root, Deref(heap, pers[j].ref).shift)

\* C20: after conj of the integers 0..31 (WIDTH of them) onto the empty vector,
\* count is 32, the tail is empty and the trie holds exactly one leaf
C20_ConjFull ==
    (BITS = SourceBITS /\ Grown(WIDTH)) =>
        /\ Deref(heap, pers[1].ref).cnt = WIDTH
        /\ TailLen(1) = 0
        /\ Leaves(1) = 1

\* C20 as the code has it: after conj of the integers 0..31 count is 32, all
\* 32 elements are in the tail and the trie holds no leaf; the next conj
\* moves the full tail into the trie as its only leaf and starts a tail of 1
C20_ConjFullTail ==
    /\ Grown(WIDTH) =>
           /\ Deref(heap, pers[1].ref).cnt = WIDTH
           /\ TailLen(1) = WIDTH
           /\ Leaves(1) = 0
    /\ Grown(WIDTH + 1) =>
           /\ Deref(heap, pers[1].ref).cnt = WIDTH + 1
           /\ TailLen(1) = 1
           /\ Leaves(1) = 1

C20_Witness ==
    /\ BITS = SourceBITS /\ Grown(WIDTH) /\ lastOp = "conj" /\ err = NoError
    /\ pers[1].obs.iter = Tup([j \in 1..WIDTH |-> j], WIDTH)

Shift(j) == Deref(heap, pers[j].ref).shift

\* C21: after conj of the integers 0..1024 onto the empty vector (count 1025)
\* shift is 10, get(0) is 0 and get(1024) is 1024; the integer k is the
\* model's value k + 1
C21_ShiftAt1025 ==
    (BITS = SourceBITS /\ Grown(WIDTH * WIDTH + 1)) =>
        /\ Shift(1) = 2 * BITS
        /\ pers[1].obs.nth[1] = 1
        /\ pers[1].obs.nth[WIDTH * WIDTH + 1] = WIDTH * WIDTH + 1

\* C21 as the code has it: after conj of 0..1024 (count 1025) shift is still
\* 5, the root holding its 32 leaves, and it stays 5 up to count 1056; it
\* becomes 10 when element 1056 is appended (count 1057).  At each of these
\* counts get(0) is 0 and the last element is the one appended last
C21_ShiftAt1057 ==
    /\ \A n \in (WIDTH * WIDTH + 1)..(WIDTH * WIDTH + WIDTH) :
           Grown(n) =>
               /\ Shift(1) = BITS
               /\ pers[1].obs.nth[1] = 1
               /\ pers[1].obs.nth[n] = n
    /\ Grown(WIDTH * WIDTH + WIDTH + 1) =>
           /\ Shift(1) = 2 * BITS
           /\ pers[1].obs.nth[1] = 1
           /\ pers[1].obs.nth[WIDTH * WIDTH + WIDTH + 1] = WIDTH * WIDTH + WIDTH + 1

C21_Witness ==
    /\ BITS = SourceBITS /\ Grown(WIDTH * WIDTH + 1) /\ lastOp = "conj"
    /\ err = NoError /\ Deref(heap, pers[1].ref).cnt = 1025

\* the edit token a node carries
NodeToken(rec) ==
    IF rec.kind = "RBNode" THEN rec.edit
    ELSE IF rec.kind \in {"VectorNode", "DoubleVectorNode", "BitmapIndexedNode",
                          "ArrayNode", "HashCollisionNode"} THEN rec.transient_id
    ELSE NULL

\* the token of the client's transient while it is live, NULL otherwise
LiveToken == IF tr.ref = NULL THEN NULL ELSE Deref(heap, tr.ref).id

\* the objects reachable from the persistent value pers[j]
ReachableFrom(j) ==
    With(Reach(heap, <<pers[j].ref>>, <<>>), LAMBDA seen :
         {seen[p] : p \in 1..Len(seen)})

\* C22: no node reachable from a persistent value carries the token of a
\* live transient, and a transient that persistent() has returned on has no
\* token any more
C22_NoLiveToken ==
    /\ LiveToken # NULL =>
           \A j \in 1..Len(pers) : \A r \in ReachableFrom(j) :
               /\ r # LiveToken
               /\ NodeToken(Deref(heap, r)) # LiveToken
    /\ (tr.ref # NULL /\ tr.frozen = 1) => LiveToken = NULL

\* a live transient has built nodes of its own next to a persistent value
C22_Witness ==
    /\ LiveToken # NULL /\ lastOp \in MutatingOps /\ err = NoError
    /\ Len(pers) > 0
    /\ \E o \in 1..Len(heap) : NodeToken(heap[o]) = LiveToken

\* the shape of a Vector or TransientVector record: the elements are the
\* tail and the full leaves of the trie, and the trie holds tail_off of them
VecShape(rec) ==
    /\ rec.cnt = Len(rec.tail) + WIDTH * Vector_leaves(heap, rec.root, rec.shift)
    /\ rec.cnt - Len(rec.tail) =
           IF rec.cnt >= WIDTH THEN ((rec.cnt - 1) \div WIDTH) * WIDTH ELSE 0

\* C23: for every Vector and TransientVector, count is the tail length plus
\* WIDTH (32) times the number of trie leaves, and count - tail_len is
\* ((count - 1) >> BITS) << BITS when count >= WIDTH and 0 otherwise
C23_VectorShape ==
    kind = "vec" =>
        /\ \A j \in 1..Len(pers) : VecShape(Deref(heap, pers[j].ref))
        /\ tr.ref # NULL => VecShape(Deref(heap, tr.ref))

\* a transient whose pop_mut has just taken its new tail out of the trie, and
\* still has leaves there
C23_Witness ==
    /\ kind = "vec" /\ lastOp = "pop_mut" /\ err = NoError /\ tr.ref # NULL
    /\ Len(Deref(heap, tr.ref).tail) = WIDTH
    /\ Deref(heap, tr.ref).cnt > 2 * WIDTH

\* the entries iteration over a map or set (persistent or transient) yields
Entries(h, self) ==
    IF Deref(h, self).root = NULL THEN <<>> ELSE Node_iter_kv(h, Deref(h, self).root)

\* count is the number of entries iteration yields, each key once
Counted(h, self) ==
    With(Entries(h, self), LAMBDA kv :
         /\ Deref(h, self).cnt = Len(kv)
         /\ \A a, b \in 1..Len(kv) :
                kv[a][1] # Undefined /\ (a # b => kv[a][1] # kv[b][1]))

\* assoc / conj and dissoc / disj of the key on a value or on a transient
Put(h, self, key) ==
    CASE Deref(h, self).kind = "Map" -> Map_assoc(h, self, key, 1)
      [] Deref(h, self).kind = "Set" -> Set_conj(h, self, key)
      [] Deref(h, self).kind = "TransientMap" ->
            TransientMap_assoc_mut_impl(h, self, key, 1)
      [] Deref(h, self).kind = "TransientSet" -> TransientSet_conj_mut(h, self, key)

Drop(h, self, key) ==
    CASE Deref(h, self).kind = "Map" -> Map_dissoc(h, self, key)
      [] Deref(h, self).kind = "Set" -> Set_disj(h, self, key)
      [] Deref(h, self).kind = "TransientMap" -> TransientMap_dissoc_mut(h, self, key)
      [] Deref(h, self).kind = "TransientSet" -> TransientSet_disj_mut(h, self, key)

\* the operation changes count by delta and leaves a counted value
Steps(res, cnt, delta) ==
    /\ res.e = NoError
    /\ Deref(res.h, res.r).cnt = cnt + delta
    /\ Counted(res.h, res.r)

\* what C24 says of the value or transient self, whose keys abs records
CountsOf(self, abs, absent) ==
    /\ Counted(heap, self)
    /\ \A p \in 1..Len(KeySeq) :
           /\ Steps(Put(heap, self, KeySeq[p]), Deref(heap, self).cnt,
                    IF abs[p] = absent THEN 1 ELSE 0)
           /\ Steps(Drop(heap, self, KeySeq[p]), Deref(heap, self).cnt,
                    IF abs[p] = absent THEN 0 ELSE 0 - 1)

\* C24: on every map and set, persistent or transient, assoc / conj raises
\* count by 1 iff the key was absent, dissoc / disj lowers it by 1 iff the key
\* was present, and count is the number of entries iteration yields, each
\* yielded once
C24_Counts ==
    kind \in {"map", "set"} =>
        /\ \A j \in 1..Len(pers) :
               CountsOf(pers[j].ref, pers[j].abs, IF kind = "map" THEN MISSING ELSE 0)
        /\ (tr.ref # NULL /\ tr.frozen = 0) =>
               CountsOf(tr.ref, tr.abs, IF kind = "map" THEN MISSING ELSE 0)

\* the root node of the map pers[j], and the occupied slots of an ArrayNode
RootOf(h, self) == Deref(h, Deref(h, self).root)
Occupied(node) == {i \in 0..(WIDTH - 1) : node.array[i + 1] # Py_None}
FirstSlot(key) == mask_hash(PyObject_Hash(key), 0)

\* assoc of a key with a new first-level slot into the bitmap-indexed root
Promoted(j, key) ==
    LET root == RootOf(heap, pers[j].ref)
        n == ctpop(root.bitmap)
    IN  With(Map_assoc(heap, pers[j].ref, key, 1), LAMBDA res :
             LET new_root == RootOf(res.h, res.r) IN
             /\ res.e = NoError
             /\ IF n >= WIDTH \div 2
                THEN /\ new_root.kind = "ArrayNode"
                     /\ new_root.count = n + 1
                     /\ Occupied(new_root) = root.bitmap \cup {FirstSlot(key)}
                ELSE /\ new_root.kind = "BitmapIndexedNode"
                     /\ new_root.bitmap = root.bitmap \cup {FirstSlot(key)})

\* C25: assoc of an entry with a new slot into a bitmap-indexed node that has
\* WIDTH / 2 (16) occupied slots gives an Array node with count 17 holding a
\* child for every old slot and for the new one, with fewer slots the node
\* stays bitmap-indexed; a map built from 17 entries with distinct
\* first-level slots has an Array-node root
C25_Promotion ==
    kind = "map" =>
        /\ \A j \in 1..Len(pers) : \A p \in 1..Len(KeySeq) :
               (/\ Deref(heap, pers[j].ref).root # NULL
                /\ RootOf(heap, pers[j].ref).kind = "BitmapIndexedNode"
                /\ KeySeq[p] # Py_None
                /\ FirstSlot(KeySeq[p]) \notin RootOf(heap, pers[j].ref).bitmap)
               => Promoted(j, KeySeq[p])
        /\ \A j \in 1..Len(pers) :
               (/\ pers[j].obs.len = WIDTH \div 2 + 1
                /\ \A a, b \in 1..Len(pers[j].obs.iter) :
                       a # b => FirstSlot(pers[j].obs.iter[a][1])
                                    # FirstSlot(pers[j].obs.iter[b][1]))
               => RootOf(heap, pers[j].ref).kind = "ArrayNode"

\* at the width of the source, a map of 16 slots and the map of 17 made from it
C25_Witness ==
    /\ kind = "map" /\ BITS = SourceBITS /\ lastOp = "assoc" /\ err = NoError
    /\ \E i, j \in 1..Len(pers) :
           /\ Deref(heap, pers[i].ref).root # NULL
           /\ Deref(heap, pers[j].ref).root # NULL
           /\ RootOf(heap, pers[i].ref).kind = "BitmapIndexedNode"
           /\ ctpop(RootOf(heap, pers[i].ref).bitmap) = 16
           /\ RootOf(heap, pers[j].ref).kind = "ArrayNode"
           /\ RootOf(heap, pers[j].ref).count = 17

----------------------------------------------------------------------------
(* Demotion of an ArrayNode, pds.c:5115-5189 *)

\* the root of pers[j] is an ArrayNode and dissoc of KeySeq[p] clears the slot
\* of the key: the child under the slot holds that key and nothing else
Clears(j, p) ==
    /\ Deref(heap, pers[j].ref).root # NULL
    /\ RootOf(heap, pers[j].ref).kind = "ArrayNode"
    /\ KeySeq[p] # Py_None
    /\ LET child == RootOf(heap, pers[j].ref).array[FirstSlot(KeySeq[p]) + 1] IN
       /\ child # Py_None
       /\ Deref(heap, child).kind = "BitmapIndexedNode"
       /\ Deref(heap, child).array = <<KeySeq[p], pers[j].abs[p]>>

\* dissoc of KeySeq[p] from pers[j] leaves a bitmap-indexed root whose bitmap
\* is the set of the slots still occupied
Demoted(j, p) ==
    With(Map_dissoc(heap, pers[j].ref, KeySeq[p]), LAMBDA res :
         /\ res.e = NoError
         /\ RootOf(res.h, res.r).kind = "BitmapIndexedNode"
         /\ RootOf(res.h, res.r).bitmap =
                Occupied(RootOf(heap, pers[j].ref)) \ {FirstSlot(KeySeq[p])})

\* dissoc of KeySeq[p] from pers[j] leaves an ArrayNode root with one child less
Cleared(j, p) ==
    With(Map_dissoc(heap, pers[j].ref, KeySeq[p]), LAMBDA res :
         /\ res.e = NoError
         /\ RootOf(res.h, res.r).kind = "ArrayNode"
         /\ RootOf(res.h, res.r).count = RootOf(heap, pers[j].ref).count - 1
         /\ Occupied(RootOf(res.h, res.r)) =
                Occupied(RootOf(heap, pers[j].ref)) \ {FirstSlot(KeySeq[p])})

\* C26 as stated: a dissoc that clears a child slot of an ArrayNode and
\* brings child_count down to WIDTH / 4 (8) demotes the node to a
\* bitmap-indexed node whose bitmap is the set of the occupied slots, so a
\* root from which entries are removed one at a time is bitmap-indexed as
\* soon as 8 children remain.
C26_DemoteAt8 ==
    kind = "map" =>
        \A j \in 1..Len(pers) : \A p \in 1..Len(KeySeq) :
            (Clears(j, p) /\ RootOf(heap, pers[j].ref).count = WIDTH \div 4 + 1)
            => Demoted(j, p)

\* C26 as the code has it: a dissoc that clears a child slot of an ArrayNode
\* demotes the node exactly when child_count was WIDTH / 4 (8) or less before
\* the removal, so the bitmap-indexed node holds 7 children; an ArrayNode
\* whose child_count goes from 9 to 8 stays an ArrayNode with child_count 8.
C26_DemoteBelow8 ==
    kind = "map" =>
        \A j \in 1..Len(pers) : \A p \in 1..Len(KeySeq) :
            Clears(j, p) =>
                IF RootOf(heap, pers[j].ref).count <= WIDTH \div 4
                THEN Demoted(j, p)
                ELSE Cleared(j, p)

\* a dissoc has produced a root packed from an ArrayNode: a bitmap-indexed
\* root of 7 entries, every one of them a child node
C26_Witness ==
    /\ kind = "map" /\ BITS = SourceBITS /\ lastOp = "dissoc" /\ err = NoError
    /\ Len(pers) = 1 /\ pers[1].obs.len = WIDTH \div 4 - 1
    /\ Deref(heap, pers[1].ref).root # NULL
    /\ RootOf(heap, pers[1].ref).kind = "BitmapIndexedNode"
    /\ ctpop(RootOf(heap, pers[1].ref).bitmap) = WIDTH \div 4 - 1
    /\ \A i \in 1..(WIDTH \div 4 - 1) :
           RootOf(heap, pers[1].ref).array[2 * i - 1] = Py_None

----------------------------------------------------------------------------
(* Removal from a HashCollisionNode, pds.c:5336-5372 *)

\* the entries (positions in the array of the root) under which the
\* bitmap-indexed root of pers[j] holds a HashCollisionNode of two entries
Collisions(j) ==
    IF Deref(heap, pers[j].ref).root = NULL
       \/ RootOf(heap, pers[j].ref).kind # "BitmapIndexedNode" THEN {}
    ELSE LET root == RootOf(heap, pers[j].ref) IN
         {i \in 1..ctpop(root.bitmap) :
              /\ root.array[2 * i - 1] = Py_None
              /\ IsNode(heap, root.array[2 * i])
              /\ Deref(heap, root.array[2 * i]).kind = "HashCollisionNode"
              /\ Deref(heap, root.array[2 * i]).count = 2}

\* dissoc of the a-th key of the collision node under entry i of the root of
\* pers[j]: count goes down by one and the other key, the b-th, keeps its
\* value; Shape tells how entry i of the new root stores the other key
Uncollide(j, i, a, b, Shape(_, _, _, _)) ==
    LET m == Deref(heap, pers[j].ref)
        pairs == Deref(heap, RootOf(heap, pers[j].ref).array[2 * i]).array
    IN  With(Map_dissoc(heap, pers[j].ref, pairs[2 * a - 1]), LAMBDA res :
             /\ res.e = NoError
             /\ Deref(res.h, res.r).cnt = m.cnt - 1
             /\ Map_get(res.h, res.r, pairs[2 * a - 1], MISSING) = MISSING
             /\ Map_get(res.h, res.r, pairs[2 * b - 1], MISSING) = pairs[2 * b]
             /\ RootOf(res.h, res.r).kind = "BitmapIndexedNode"
             /\ RootOf(res.h, res.r).bitmap = RootOf(heap, pers[j].ref).bitmap
             /\ Shape(res.h, RootOf(res.h, res.r).array[2 * i - 1],
                      RootOf(res.h, res.r).array[2 * i], <<pairs[2 * b - 1], pairs[2 * b]>>))

\* the entry is the plain pair
PlainEntry(h, key_or_null, val_or_node, pair) == <<key_or_null, val_or_node>> = pair

\* the entry is a HashCollisionNode holding the pair and nothing else
SingleCollision(h, key_or_null, val_or_node, pair) ==
    /\ key_or_null = Py_None
    /\ IsNode(h, val_or_node)
    /\ Deref(h, val_or_node).kind = "HashCollisionNode"
    /\ Deref(h, val_or_node).count = 1
    /\ Deref(h, val_or_node).array = pair

\* C27 as stated: after two keys of equal hash went into a map and one of them
\* is dissoc-ed, count is one less, the value of the other key is retrievable,
\* and the other entry is stored as a plain key-value entry, not in a
\* HashCollisionNode of one entry.
C27_Collapse ==
    kind = "map" =>
        \A j \in 1..Len(pers) : \A i \in Collisions(j) :
            /\ Uncollide(j, i, 1, 2, PlainEntry)
            /\ Uncollide(j, i, 2, 1, PlainEntry)

\* C27 as the code has it: count is one less and the value of the other key is
\* retrievable, and the other entry stays in a HashCollisionNode whose count
\* is 1.
C27_SingleEntry ==
    kind = "map" =>
        \A j \in 1..Len(pers) : \A i \in Collisions(j) :
            /\ Uncollide(j, i, 1, 2, SingleCollision)
            /\ Uncollide(j, i, 2, 1, SingleCollision)

\* two keys of equal hash went into the empty map and one was dissoc-ed
C27_Witness ==
    /\ kind = "map" /\ lastOp = "dissoc" /\ err = NoError /\ Len(pers) = 1
    /\ pers[1].obs.len = 1
    /\ pers[1].obs.iter = <<<<WIDTH * WIDTH + 1, 1>>>>
    /\ pers[1].obs.get[4] = 1
    /\ RootOf(heap, pers[1].ref).kind = "BitmapIndexedNode"
    /\ SingleCollision(heap, RootOf(heap, pers[1].ref).array[1],
                       RootOf(heap, pers[1].ref).array[2], <<WIDTH * WIDTH + 1, 1>>)

----------------------------------------------------------------------------
(* The red-black shape of SortedVector, pds.c:8178-8201, 8751-8888 *)

\* the number of black nodes on every path from node to a null link, or -1
\* when two paths differ
RECURSIVE BlackHeight(_, _)
BlackHeight(h, node) ==
    IF node = NULL THEN 0
    ELSE With(BlackHeight(h, Left(h, node)), LAMBDA l :
         With(BlackHeight(h, Right(h, node)), LAMBDA r :
         IF l = -1 \/ r = -1 \/ l # r THEN -1
         ELSE IF RBNode_is_red(h, node) THEN l ELSE l + 1))

\* no red right child and no red node with a red child, below node
RECURSIVE LeftLeaning(_, _)
LeftLeaning(h, node) ==
    \/ node = NULL
    \/ /\ ~RBNode_is_red(h, Right(h, node))
       /\ RBNode_is_red(h, node) => ~RBNode_is_red(h, Left(h, node))
       /\ LeftLeaning(h, Left(h, node)) /\ LeftLeaning(h, Right(h, node))

RedBlack(h, root) ==
    /\ ~RBNode_is_red(h, root)
    /\ LeftLeaning(h, root)
    /\ BlackHeight(h, root) # -1

\* C28: every SortedVector reachable by conj and disj, and by conj_mut and
\* disj_mut followed by persistent(), has a black root, no red node with a
\* red child, no red right child, and the same number of black nodes on every
\* path from the root to a null link.
C28_RedBlack ==
    kind = "sorted" =>
        \A j \in 1..Len(pers) : RedBlack(heap, Deref(heap, pers[j].ref).root)

\* the same shape on the vectors whose count is the number of their nodes,
\* which are the ones no disj has taken more than one element from
RedBlackCounted ==
    kind = "sorted" =>
        \A j \in 1..Len(pers) :
            pers[j].obs.len = Len(pers[j].obs.iter) =>
                RedBlack(heap, Deref(heap, pers[j].ref).root)

----------------------------------------------------------------------------
(* The key None, pds.c:4653-4683, 4803-4834, 4960-5011 *)

NonePos == CHOOSE p \in 1..Len(KeySeq) : KeySeq[p] = Py_None

\* C29: a key None stored as a leaf entry of a bitmap-indexed node is never
\* taken for a child node: once assoc(None, v) has put it into a map, get(None)
\* is v, contains(None) is true, iteration yields the entry, and no operation
\* has dereferenced a stored value as a node.
C29_NoneKey ==
    (kind = "map" /\ mode = "chain") =>
        /\ err # UndefinedBehaviour
        /\ \A j \in 1..Len(pers) :
               pers[j].abs[NonePos] # MISSING =>
                   /\ pers[j].obs.get[NonePos] = pers[j].abs[NonePos]
                   /\ pers[j].obs.contains[NonePos] = 1
                   /\ Occurs(pers[j].obs.iter, <<Py_None, pers[j].abs[NonePos]>>)

----------------------------------------------------------------------------
(* The nodes of a live DoubleVector, pds.c:1569-1596, 1827-1863 *)

\* the nodes below node in a trie of the given level, node included, as the
\* child pointers and valid_mask bits lead to them
RECURSIVE DoubleVector_nodes(_, _, _)
DoubleVector_nodes(h, node, level) ==
    IF level = 0 THEN {node}
    ELSE {node} \cup UNION {DoubleVector_nodes(h, Deref(h, node).array[i + 1],
                                                level - BITS) :
                                i \in Deref(h, node).valid_mask}

\* C30: no trie node reachable from a live DoubleVector has been released:
\* after a conj that pushes a full tail into an existing subtree of a trie
\* of two or more levels, every node of every vector the client holds, the
\* source of the conj among them, has a reference count of 1 or more, and
\* every element of these vectors reads as it did.
C30_NodesLive ==
    (kind = "f64" /\ lastOp = "conj") =>
        \A j \in 1..Len(pers) :
            /\ \A node \in DoubleVector_nodes(heap, Deref(heap, pers[j].ref).root,
                                              Deref(heap, pers[j].ref).shift) :
                   Deref(heap, node).ob_refcnt >= 1
            /\ \A i \in 1..Len(pers[j].abs) :
                   DoubleVector_nth_raw(heap, pers[j].ref, i - 1) = pers[j].abs[i]

NoUB == err # UndefinedBehaviour
====
